---- MODULE Spec2Model ----
(***************************************************************************)
(* Survey reconciliation engine of dolphin-survey-labeler                  *)
(* (src-tauri/src/lib.rs): rule compilation, survey-folder discovery,      *)
(* raw/graded pairing, per-image identity, winner selection, retain flag   *)
(* and the CSV artifacts of a run.                                         *)
(*                                                                         *)
(* Strings are sequences of one-character strings, paths are sequences of  *)
(* components, Option<T> is the empty tuple (None) or a 1-tuple (Some).    *)
(***************************************************************************)
EXTENDS Integers, Sequences, FiniteSets, TLC

VARIABLES
    fs,          \* the input trees: directories, image files, readdir order
    rules,       \* the rule document handed to the entry point
    options,     \* RootRunOptions of a full run
    single,      \* the arguments of a single-pair run
    pc,          \* position of the running entry point
    mode,        \* which entry point is running
    compiled,    \* CompiledRules of the current run
    walker,      \* the WalkDir iterator of discover_surveys: a stack of lists
    visited,     \* directories the current run's walks yielded, per side
    raw_map,     \* discover_surveys(raw_root)
    graded_map,  \* discover_surveys(graded_root)
    scan,        \* ScanResult: entries, problems, preview
    pair,        \* process_pair's locals for the pair being processed
    totals,      \* run_root_scan's counters
    events,      \* every progress event the run emitted
    disk,        \* the files the current run wrote
    result,      \* what the entry point returned
    prev         \* the files and result of the run before the current one,
                 \* if that was a run of the same entry point

vars == <<fs, rules, options, single, pc, mode, compiled, walker, visited, raw_map,
          graded_map, scan, pair, totals, events, disk, result, prev>>

-----------------------------------------------------------------------------
(* Bounds of the model. *)

\* non-root directories of each input tree
MaxDirs == 3
\* graded image files of the pair whose files vary
MaxGradedFiles == 2
\* raw image files of the pair whose files vary
MaxRawFiles == 2

-----------------------------------------------------------------------------
(* Option<T> *)

None == <<>>
Some(x) == <<x>>
IsSome(o) == Len(o) = 1
IsNone(o) == Len(o) = 0
Unwrap(o) == o[1]

-----------------------------------------------------------------------------
(* Characters and strings *)

\* The characters of the model in byte order; a character's rank is its index.
AsciiOrder ==
    <<" ", "*", ".", "/", "0", "1", "2", "3", "4", "5", "6", "7", "8", "9",
      ";", "A", "B", "I", "J", "N", "P", "Q", "R", "W",
      "_", "a", "b", "c", "g", "i", "j", "n", "o", "p", "q", "r", "t", "w", "x", "|">>

Chars == {AsciiOrder[i] : i \in DOMAIN AsciiOrder}

Ord(c) == CHOOSE i \in DOMAIN AsciiOrder : AsciiOrder[i] = c

Digits == {"0", "1", "2", "3", "4", "5", "6", "7", "8", "9"}
UpperChars == {"A", "B", "I", "J", "N", "P", "Q", "R", "W"}
LowerChars ==
    {"a", "b", "c", "g", "i", "j", "n", "o", "p", "q", "r", "t", "w", "x"}
AlnumChars == Digits \cup UpperChars \cup LowerChars
WordChars == AlnumChars \cup {"_"}

LowerOf ==
    ("A" :> "a") @@ ("B" :> "b") @@ ("I" :> "i") @@ ("J" :> "j") @@
    ("N" :> "n") @@ ("P" :> "p") @@ ("Q" :> "q") @@ ("R" :> "r") @@
    ("W" :> "w")

UpperOf ==
    ("a" :> "A") @@ ("b" :> "B") @@ ("i" :> "I") @@ ("j" :> "J") @@
    ("n" :> "N") @@ ("p" :> "P") @@ ("q" :> "Q") @@ ("r" :> "R") @@
    ("w" :> "W")

\* str::to_lowercase
to_lowercase(s) ==
    [i \in DOMAIN s |-> IF s[i] \in DOMAIN LowerOf THEN LowerOf[s[i]] ELSE s[i]]

\* str::to_uppercase
to_uppercase(s) ==
    [i \in DOMAIN s |-> IF s[i] \in DOMAIN UpperOf THEN UpperOf[s[i]] ELSE s[i]]

\* str::trim
RECURSIVE trim(_)
trim(s) ==
    IF s = <<>> THEN s
    ELSE IF s[1] = " " THEN trim(Tail(s))
    ELSE IF s[Len(s)] = " " THEN trim(SubSeq(s, 1, Len(s) - 1))
    ELSE s

\* str::starts_with at an offset: t occurs in s at position i
OccursAt(s, t, i) ==
    /\ i >= 1
    /\ i + Len(t) - 1 <= Len(s)
    /\ \A k \in 1..Len(t) : s[i + k - 1] = t[k]

\* str::contains
contains(s, t) == \E i \in 1..(Len(s) + 1) : OccursAt(s, t, i)

\* Ord for String / str (byte-wise lexicographic): -1, 0, 1
\* Ord for integers: -1, 0, 1
cmp_int(m, n) == IF m < n THEN -1 ELSE IF m > n THEN 1 ELSE 0

RECURSIVE cmp_str(_, _)
cmp_str(a, b) ==
    IF a = <<>> /\ b = <<>> THEN 0
    ELSE IF a = <<>> THEN -1
    ELSE IF b = <<>> THEN 1
    ELSE IF a[1] = b[1] THEN cmp_str(Tail(a), Tail(b))
    ELSE cmp_int(Ord(a[1]), Ord(b[1]))

\* Ord for PathBuf: component by component, each component byte-wise
\* Ordering::then
then(first, second) == IF first # 0 THEN first ELSE second

RECURSIVE cmp_path(_, _)
cmp_path(p, q) ==
    IF p = <<>> /\ q = <<>> THEN 0
    ELSE IF p = <<>> THEN -1
    ELSE IF q = <<>> THEN 1
    ELSE then(cmp_str(p[1], q[1]), cmp_path(Tail(p), Tail(q)))

\* [String]::join
RECURSIVE join(_, _)
join(list, sep) ==
    IF list = <<>> THEN <<>>
    ELSE IF Len(list) = 1 THEN list[1]
    ELSE list[1] \o sep \o join(Tail(list), sep)

\* Path::to_string_lossy of an absolute path
RECURSIVE to_string_lossy(_)
to_string_lossy(path) ==
    IF path = <<>> THEN <<>>
    ELSE <<"/">> \o path[1] \o to_string_lossy(Tail(path))

\* the elements of a sequence
Range(s) == {s[i] : i \in DOMAIN s}

\* the sequences that enumerate the finite set S once each
Orderings(S) ==
    {f \in [1..Cardinality(S) -> S] : \A i, j \in 1..Cardinality(S) : f[i] = f[j] => i = j}

\* u64::to_string
RECURSIVE to_string(_)
to_string(n) ==
    LET digit == <<"0", "1", "2", "3", "4", "5", "6", "7", "8", "9">>
    IN  IF n < 10 THEN <<digit[n + 1]>>
        ELSE to_string(n \div 10) \o <<digit[(n % 10) + 1]>>

-----------------------------------------------------------------------------
(* regex::Regex.  A compiled pattern is a record; its kind is one of        *)
(*   "token":    \b? core (?:opt)? \b?   with group 1 around core, or       *)
(*               around core and opt, or no group at all; (?i) optional    *)
(*   "image_id": ^(.+?_\d{lo,hi})(?:[seps][A-Za-z0-9]+)*$                   *)
(*   "literal":  ^lit$   (no group)                                        *)
(*   "invalid":  a pattern Regex::new rejects                              *)
(* core and opt are sequences of character classes (sets of characters).   *)

IsWordAt(s, i) == i >= 1 /\ i <= Len(s) /\ s[i] \in WordChars

\* \b at the gap before s[i]
word_boundary(s, i) == IsWordAt(s, i - 1) # IsWordAt(s, i)

\* one character against one class, case-folded under (?i)
ClassMatches(re, c, cls) ==
    \/ c \in cls
    \/ /\ re.ci
       /\ \/ (c \in DOMAIN LowerOf /\ LowerOf[c] \in cls)
          \/ (c \in DOMAIN UpperOf /\ UpperOf[c] \in cls)

ClassesAt(re, s, i, classes) ==
    /\ i + Len(classes) - 1 <= Len(s)
    /\ \A k \in 1..Len(classes) : ClassMatches(re, s[i + k - 1], classes[k])

\* length of the "token" match that starts at i, the greedy optional part
\* first; 0 when there is none
token_match_at(re, s, i) ==
    LET j == i + Len(re.core)
        k == j + Len(re.opt)
    IN  IF ~((re.wb_start => word_boundary(s, i)) /\ ClassesAt(re, s, i, re.core))
        THEN 0
        ELSE IF /\ re.opt # <<>>
                /\ ClassesAt(re, s, j, re.opt)
                /\ (re.wb_end => word_boundary(s, k))
        THEN Len(re.core) + Len(re.opt)
        ELSE IF re.wb_end => word_boundary(s, j)
        THEN Len(re.core)
        ELSE 0

\* group 1 of the "token" match of length n at i
token_group(re, s, i, n) ==
    IF ~re.group THEN None
    ELSE IF re.cap_opt THEN Some(SubSeq(s, i, i + n - 1))
    ELSE Some(SubSeq(s, i, i + Len(re.core) - 1))

\* the non-overlapping "token" matches from position p on, leftmost first:
\* group 1 of each
RECURSIVE token_captures_from(_, _, _)
token_captures_from(re, s, p) ==
    IF p > Len(s) THEN <<>>
    ELSE LET n == token_match_at(re, s, p)
         IN  IF n = 0 THEN token_captures_from(re, s, p + 1)
             ELSE <<token_group(re, s, p, n)>> \o token_captures_from(re, s, p + n)

\* (?:[seps][A-Za-z0-9]+)*$ on the rest of the stem
image_id_tail(re, t) ==
    \/ t = <<>>
    \/ /\ t[1] \in re.seps
       /\ \A i \in 1..Len(t) :
            /\ t[i] \in re.seps \cup AlnumChars
            /\ t[i] \in re.seps => (i < Len(t) /\ t[i + 1] \in AlnumChars)

\* the candidates <<k, d>> of ^(.+?_\d{lo,hi}) ... $ on s: a prefix of k
\* characters, "_", d digits, and a rest the tail pattern matches
image_id_fits(re, s) ==
    {kd \in (1..Len(s)) \X (re.lo..re.hi) :
        /\ kd[1] + 1 + kd[2] <= Len(s)
        /\ s[kd[1] + 1] = "_"
        /\ \A m \in 1..kd[2] : s[kd[1] + 1 + m] \in Digits
        /\ image_id_tail(re, SubSeq(s, kd[1] + 2 + kd[2], Len(s)))}

\* the lazy prefix is the shortest that fits, the digit run the longest
image_id_best(fits) ==
    CHOOSE kd \in fits :
        \A other \in fits :
            \/ kd[1] < other[1]
            \/ kd[1] = other[1] /\ kd[2] >= other[2]

\* the matches of the "image_id" pattern (at most one): group 1 of each
image_id_group(s, fits) ==
    IF fits = {} THEN <<>>
    ELSE <<Some(SubSeq(s, 1, image_id_best(fits)[1] + 1 + image_id_best(fits)[2]))>>

image_id_capture(re, s) == image_id_group(s, image_id_fits(re, s))

\* Regex::captures_iter: group 1 (an Option) of every match, in order
captures_iter(re, s) ==
    CASE re.kind = "token" -> token_captures_from(re, s, 1)
      [] re.kind = "image_id" -> image_id_capture(re, s)
      [] re.kind = "literal" -> IF s = re.lit THEN <<None>> ELSE <<>>

\* Iterator::next on a fresh iterator
first(s) == IF s = <<>> THEN None ELSE Some(s[1])

\* Regex::captures: the first match, if any
captures(re, s) == first(captures_iter(re, s))

\* Regex::is_match
is_match(re, s) == captures_iter(re, s) # <<>>

\* Iterator::last that stops at the first item
last_takes_first(s) == IF s = <<>> THEN None ELSE Some(s[1])

\* Iterator::last
last(s) == IF s = <<>> THEN None ELSE Some(s[Len(s)])

\* Regex::new
regex_new(pattern) == IF pattern.kind = "invalid" THEN None ELSE Some(pattern)

-----------------------------------------------------------------------------
(* std::path::Path.  A file name is a string; a path is its components.     *)

\* index of the last "." of a name, 0 if none
RECURSIVE last_dot(_)
last_dot(name) ==
    IF name = <<>> THEN 0
    ELSE IF name[Len(name)] = "." THEN Len(name)
    ELSE last_dot(SubSeq(name, 1, Len(name) - 1))

\* the name before the dot at index dot: the whole name when there is no
\* dot or only a leading one
stem_at(name, dot) == IF dot <= 1 THEN name ELSE SubSeq(name, 1, dot - 1)

\* the name after the dot at index dot
extension_at(name, dot) ==
    IF dot <= 1 THEN None ELSE Some(SubSeq(name, dot + 1, Len(name)))

\* Path::file_stem of a path whose last component is name
file_stem(name) == stem_at(name, last_dot(name))

\* Path::extension
extension(name) == extension_at(name, last_dot(name))

\* path is root or lies beneath it
IsUnder(path, root) ==
    Len(root) <= Len(path) /\ SubSeq(path, 1, Len(root)) = root

\* Path::strip_prefix
strip_prefix(path, root) ==
    IF IsUnder(path, root) THEN Some(SubSeq(path, Len(root) + 1, Len(path)))
    ELSE None


-----------------------------------------------------------------------------
(* Rule compiler *)

\* a Result
Ok(v) == [ok |-> TRUE, value |-> v]
Err(e) == [ok |-> FALSE, error |-> e]

normalize_extension(ext) ==
    LET trimmed == to_lowercase(trim(ext))
    IN  IF trimmed # <<>> /\ trimmed[1] = "." THEN trimmed ELSE <<".">> \o trimmed

RECURSIVE normalize_tokens(_)
normalize_tokens(tokens) ==
    IF tokens = <<>> THEN <<>>
    ELSE LET token == to_lowercase(trim(tokens[1]))
         IN  IF token # <<>>
             THEN <<token>> \o normalize_tokens(Tail(tokens))
             ELSE normalize_tokens(Tail(tokens))

\* compile_rules that takes the priority pattern as it is written
compile_rules_skips_ind(r) ==
    IF \/ IsNone(regex_new(r.survey_id_regex_detected))
       \/ IsNone(regex_new(r.survey_id_regex_base))
       \/ IsNone(regex_new(r.image_id_regex))
    THEN Err("Regex")
    ELSE Ok([extensions |-> {normalize_extension(e) : e \in Range(r.extensions)},
             detected_re |-> Unwrap(regex_new(r.survey_id_regex_detected)),
             base_re |-> Unwrap(regex_new(r.survey_id_regex_base)),
             image_id_re |-> Unwrap(regex_new(r.image_id_regex)),
             ind_re |-> r.graded_priority_ind_regex,
             secondary_tokens |-> normalize_tokens(r.graded_priority_secondary_tokens),
             negative_tokens |-> normalize_tokens(r.graded_negative_contains_any),
             positive_tokens |-> normalize_tokens(r.graded_positive_contains_any)])

compile_rules(r) ==
    IF \/ IsNone(regex_new(r.survey_id_regex_detected))
       \/ IsNone(regex_new(r.survey_id_regex_base))
       \/ IsNone(regex_new(r.image_id_regex))
       \/ IsNone(regex_new(r.graded_priority_ind_regex))
    THEN Err("Regex")
    ELSE Ok([extensions |-> {normalize_extension(e) : e \in Range(r.extensions)},
             detected_re |-> Unwrap(regex_new(r.survey_id_regex_detected)),
             base_re |-> Unwrap(regex_new(r.survey_id_regex_base)),
             image_id_re |-> Unwrap(regex_new(r.image_id_regex)),
             ind_re |-> Unwrap(regex_new(r.graded_priority_ind_regex)),
             secondary_tokens |-> normalize_tokens(r.graded_priority_secondary_tokens),
             negative_tokens |-> normalize_tokens(r.graded_negative_contains_any),
             positive_tokens |-> normalize_tokens(r.graded_positive_contains_any)])

-----------------------------------------------------------------------------
(* Identity extraction *)

\* Option::and_then(|captures| captures.get(1)): an absent match has no
\* group, a match has group 1 or not
group_1(found) == IF IsNone(found) THEN None ELSE Unwrap(found)

\* Option::map(|m| m.as_str().to_uppercase())
map_to_uppercase(o) == IF IsNone(o) THEN None ELSE Some(to_uppercase(Unwrap(o)))

\* Option::map(|m| m.as_str().to_lowercase())
map_to_lowercase(o) == IF IsNone(o) THEN None ELSE Some(to_lowercase(Unwrap(o)))

extract_detected_id(path, regex) ==
    group_1(last(captures_iter(regex, to_string_lossy(path))))

extract_base_key(value, regex) ==
    map_to_uppercase(group_1(last(captures_iter(regex, value))))

-----------------------------------------------------------------------------
(* Files.  An image file is [dir, name, size, meta_ok]: the directory it    *)
(* lies in, its name, its length in bytes and whether fs::metadata works.  *)

FilePath(f) == Append(f.dir, f.name)

-----------------------------------------------------------------------------
(* Sorting: the comparators of the code's sorts and the stable sort *)

\* select_winner's comparator without the priority: the shortest path first
scored_cmp_by_length(a, b) == then(cmp_int(a[2], b[2]), cmp_str(a[3], b[3]))

\* the comparator of select_winner's sort_by, on (priority, len, path, type)
scored_cmp(a, b) ==
    then(cmp_int(a[1], b[1]), then(cmp_int(a[2], b[2]), cmp_str(a[3], b[3])))

scored_less(a, b) == scored_cmp(a, b) < 0

\* the comparator of scan_roots' two sort_by calls
base_key_less(a, b) == cmp_str(a.base_key, b.base_key) < 0

\* the comparator of Vec<PathBuf>::sort
file_path_less(a, b) == cmp_path(FilePath(a), FilePath(b)) < 0

\* the comparator a sort is called with, by name
less_by(comparator, a, b) ==
    CASE comparator = "scored" -> scored_less(a, b)
      [] comparator = "base_key" -> base_key_less(a, b)
      [] comparator = "path" -> file_path_less(a, b)

\* slice::sort_by and slice::sort: a stable sort, element i goes behind the
\* elements that are less and the equal ones before it (v is the vector
\* with its elements computed once)
sort_by(s, comparator) ==
    LET v == <<>> \o s
        rank(i) == 1 + Cardinality({j \in DOMAIN v :
                        \/ less_by(comparator, v[j], v[i])
                        \/ (~less_by(comparator, v[i], v[j]) /\ j < i)})
    IN  <<>> \o [r \in DOMAIN v |-> v[CHOOSE i \in DOMAIN v : rank(i) = r]]

\* the extension set holds "." followed by the lower-cased extension
extension_allowed(ext, crules) ==
    IsSome(ext) /\ (<<".">> \o to_lowercase(Unwrap(ext))) \in crules.extensions

is_supported_image(f, crules) == extension_allowed(extension(f.name), crules)

normalize_relpath(path, root) ==
    IF IsUnder(path, root)
    THEN join(SubSeq(path, Len(root) + 1, Len(path)), <<"/">>)
    ELSE to_string_lossy(path)

\* the fallback key that never reads the metadata
fallback_file_id_name_only(f, filename_lower) == <<filename_lower, TRUE>>

\* the fallback key of a file whose stem the image-id pattern gives no
\* group 1: <<identity key, ambiguous>>
fallback_file_id(f, filename_lower) ==
    IF f.meta_ok
    THEN <<filename_lower \o <<"|">> \o to_string(f.size), FALSE>>
    ELSE <<filename_lower, TRUE>>

\* <<identity key, ambiguous>>, given group 1 of the image-id match
file_id_from(f, matched) ==
    IF IsSome(matched) THEN <<Unwrap(matched), FALSE>>
    ELSE fallback_file_id(f, to_lowercase(f.name))

compute_file_id(f, crules) ==
    file_id_from(f, map_to_lowercase(
        group_1(captures(crules.image_id_re, file_stem(f.name)))))

-----------------------------------------------------------------------------
(* Candidate classification and winner selection *)

classify_candidate(candidate, crules) ==
    LET lower == to_lowercase(candidate)
    IN  IF is_match(crules.ind_re, lower) THEN "IND"
        ELSE IF \E i \in DOMAIN crules.secondary_tokens :
                    contains(lower, crules.secondary_tokens[i])
        THEN "SECONDARY"
        ELSE "OTHER"

\* the priority select_winner gives a class
priority_of(winner_type) ==
    CASE winner_type = "IND" -> 1
      [] winner_type = "SECONDARY" -> 2
      [] OTHER -> 99

\* the tuple select_winner scores a candidate with
scored_as(candidate, winner_type) ==
    <<priority_of(winner_type), Len(candidate), candidate, winner_type>>

\* Vec::first().map(|item| CandidateWinner {..})
winner_of(sorted) ==
    IF sorted = <<>> THEN None
    ELSE Some([relpath |-> sorted[1][3], winner_type |-> sorted[1][4]])

\* Option<CandidateWinner>
select_winner(candidates, crules) ==
    IF candidates = <<>> THEN None
    ELSE winner_of(sort_by(
            [i \in DOMAIN candidates |->
                scored_as(candidates[i], classify_candidate(candidates[i], crules))],
            "scored"))

\* any_token_match without the wildcard: "*" is one more substring
any_token_match_literal(candidates, tokens) ==
    IF tokens = <<>> THEN FALSE
    ELSE \E c \in DOMAIN candidates :
            \E t \in DOMAIN tokens :
                contains(to_lowercase(candidates[c]), tokens[t])


any_token_match(candidates, tokens) ==
    IF tokens = <<>> THEN FALSE
    ELSE IF \E i \in DOMAIN tokens : tokens[i] = <<"*">> THEN TRUE
    ELSE \E c \in DOMAIN candidates :
            \E t \in DOMAIN tokens :
                contains(to_lowercase(candidates[c]), tokens[t])

\* "RAW", the graded path of a raw image without candidates
RawText == <<"R", "A", "W">>

\* positive_ok with the positive tokens looked for in the first candidate
\* only
positive_ok_first_only(candidates, crules) ==
    IF \/ crules.positive_tokens = <<>>
       \/ \E i \in DOMAIN crules.positive_tokens :
              crules.positive_tokens[i] = <<"*">>
    THEN TRUE
    ELSE any_token_match(SubSeq(candidates, 1, 1), crules.positive_tokens)

\* process_pair's positive_ok
positive_ok(candidates, crules) ==
    IF \/ crules.positive_tokens = <<>>
       \/ \E i \in DOMAIN crules.positive_tokens :
              crules.positive_tokens[i] = <<"*">>
    THEN TRUE
    ELSE any_token_match(candidates, crules.positive_tokens)

\* process_pair's verdict without the branch for an empty candidate list
pair_verdict_no_empty_branch(candidates, winner, crules) ==
    <<IF /\ ~any_token_match(candidates, crules.negative_tokens)
         /\ positive_ok(candidates, crules)
      THEN 1 ELSE 0,
      IF IsSome(winner) THEN Unwrap(winner).relpath ELSE RawText,
      IF IsSome(winner) THEN Unwrap(winner).winner_type ELSE "RAW">>

\* process_pair's (dolphin, graded_relpath, winner_type)
pair_verdict(candidates, winner, crules) ==
    IF candidates = <<>> THEN <<0, RawText, "RAW">>
    ELSE <<IF /\ ~any_token_match(candidates, crules.negative_tokens)
              /\ positive_ok(candidates, crules)
           THEN 1 ELSE 0,
           IF IsSome(winner) THEN Unwrap(winner).relpath ELSE RawText,
           IF IsSome(winner) THEN Unwrap(winner).winner_type ELSE "RAW">>

\* the CsvRow process_pair pushes
csv_row(base_key, raw, graded, raw_file, candidates, verdict) ==
    [survey_id_base |-> base_key,
     raw_relpath |-> normalize_relpath(FilePath(raw_file), raw.path),
     filename |-> raw_file.name,
     dolphin |-> verdict[1],
     graded_relpath |-> verdict[2],
     graded_hits |-> Len(candidates),
     graded_winner_type |-> verdict[3],
     survey_id_raw_detected |-> raw.detected_id,
     survey_id_graded_detected |-> graded.detected_id]

\* graded_map.get(&file_id).cloned().unwrap_or_default()
candidates_of(gmap, file_id) ==
    IF file_id \in DOMAIN gmap THEN gmap[file_id] ELSE <<>>

\* the row of one raw image, given its candidates
row_for(base_key, raw, graded, raw_file, candidates, crules) ==
    csv_row(base_key, raw, graded, raw_file, candidates,
            pair_verdict(candidates, select_winner(candidates, crules), crules))

\* the body of process_pair's loop for one raw image: the row it pushes
pair_row(base_key, raw, graded, raw_file, gmap, crules) ==
    row_for(base_key, raw, graded, raw_file,
            candidates_of(gmap, compute_file_id(raw_file, crules)[1]), crules)

-----------------------------------------------------------------------------
(* The input trees.  fs = [raw_root, graded_root, dirs, files, readdir]:    *)
(* dirs is the set of directories (paths, the roots among them), files the *)
(* set of regular files, readdir the order in which a directory lists      *)
(* names.                                                                  *)

IsChild(p, d) == Len(p) = Len(d) + 1 /\ SubSeq(p, 1, Len(d)) = d

ReaddirRank(f, name) == CHOOSE i \in DOMAIN f.readdir : f.readdir[i] = name

\* fs::read_dir(d), sub-directories only, in the tree's listing order
read_dir(f, d) ==
    LET kids == {p \in f.dirs : IsChild(p, d)}
        pos(p) == 1 + Cardinality({q \in kids :
                        ReaddirRank(f, q[Len(q)]) < ReaddirRank(f, p[Len(p)])})
    IN  [r \in 1..Cardinality(kids) |-> CHOOSE p \in kids : pos(p) = r]

\* the regular files WalkDir::new(root) yields
files_under(f, root) == {x \in f.files : IsUnder(x.dir, root)}

\* WalkDir: the stack of directory listings still to yield, innermost first;
\* exhausted listings are dropped
RECURSIVE walker_settle(_)
walker_settle(stack) ==
    IF stack = <<>> THEN <<>>
    ELSE IF stack[1] = <<>> THEN walker_settle(Tail(stack))
    ELSE stack

walker_new(root) == <<<<root>>>>

\* the entry Iterator::next yields
walker_entry(stack) == stack[1][1]

\* the stack after next() yielded a directory and opened its listing
walker_descend(f, stack) ==
    walker_settle(<<read_dir(f, walker_entry(stack)), Tail(stack[1])>> \o Tail(stack))

\* the stack after next() followed by skip_current_dir()
walker_skip(stack) ==
    walker_settle(<<Tail(stack[1])>> \o Tail(stack))

\* the walk that never calls skip_current_dir
walker_always_descends(f, stack, recorded) == walker_descend(f, stack)

\* the stack after the loop body for the entry next() yielded: a recorded
\* directory is skipped, any other is opened
walker_after_entry(f, stack, recorded) ==
    IF recorded THEN walker_skip(stack) ELSE walker_descend(f, stack)

-----------------------------------------------------------------------------
(* Folder discovery: one iteration of discover_surveys' loop *)

\* the base key discover_surveys derives for a directory
discover_base_key(path, crules) ==
    LET detected_id == extract_detected_id(path, crules.detected_re)
        from_detected == IF IsSome(detected_id)
                         THEN extract_base_key(Unwrap(detected_id), crules.base_re)
                         ELSE None
    IN  IF IsSome(from_detected) THEN from_detected
        ELSE extract_base_key(to_string_lossy(path), crules.base_re)

\* map.entry(base_key).or_default().push(folder)
map_push(map, key, folder) ==
    IF key \in DOMAIN map
    THEN [map EXCEPT ![key] = Append(@, folder)]
    ELSE map @@ (key :> <<folder>>)

\* HashMap::get(key).cloned().unwrap_or_default()
map_get(map, key) == IF key \in DOMAIN map THEN map[key] ELSE <<>>

EmptyMap == [k \in {} |-> <<>>]


-----------------------------------------------------------------------------
(* Pair reconciliation *)

\* "No raw survey folder found."
NoRawText ==
    <<"N", "o", " ", "r", "a", "w", " ", "s", "u", "r", "v", "e", "y", " ",
      "f", "o", "l", "d", "e", "r", " ", "f", "o", "u", "n", "d", ".">>

\* "No graded survey folder found."
NoGradedText ==
    <<"N", "o", " ", "g", "r", "a", "d", "e", "d", " ", "s", "u", "r", "v",
      "e", "y", " ", "f", "o", "l", "d", "e", "r", " ", "f", "o", "u", "n",
      "d", ".">>

\* Option::map(|folder| folder.path.to_string_lossy())
folder_path(folder) ==
    IF IsSome(folder) THEN Some(to_string_lossy(Unwrap(folder).path)) ELSE None

\* Option::and_then(|folder| folder.detected_id.clone())
folder_detected(folder) ==
    IF IsSome(folder) THEN Unwrap(folder).detected_id ELSE None

\* select_unique that settles for the first folder of any list
select_unique_takes_first(base_key, list, problem_type) ==
    <<IF list = <<>> THEN None ELSE Some(list[1]), None>>

\* <<Option<SurveyFolder>, Option<ProblemItem>>>
select_unique(base_key, list, problem_type) ==
    IF Len(list) <= 1
    THEN <<IF list = <<>> THEN None ELSE Some(list[1]), None>>
    ELSE <<None,
           Some([survey_id_base |-> base_key,
                 survey_id_detected |-> list[1].detected_id,
                 raw_path |-> None,
                 graded_path |-> None,
                 problem_type |-> problem_type,
                 details |-> Some(join([i \in DOMAIN list |->
                                            to_string_lossy(list[i].path)],
                                       <<";", " ">>))])>>

count_images(f, root, crules) ==
    Cardinality({x \in files_under(f, root) : is_supported_image(x, crules)})

\* Option::or_else
or_else(first_option, second_option) ==
    IF IsSome(first_option) THEN first_option ELSE second_option

\* the ProblemItem of a missing raw side
raw_missing_item(base_key, graded) ==
    [survey_id_base |-> base_key,
     survey_id_detected |-> folder_detected(graded),
     raw_path |-> None,
     graded_path |-> folder_path(graded),
     problem_type |-> "RAW_MISSING",
     details |-> None]

\* the ProblemItem of a missing graded side
graded_missing_item(base_key, raw) ==
    [survey_id_base |-> base_key,
     survey_id_detected |-> folder_detected(raw),
     raw_path |-> folder_path(raw),
     graded_path |-> None,
     problem_type |-> "GRADED_MISSING",
     details |-> None]

\* Option::map(|problem| problem.problem_type.clone())
problem_type_of(problem) ==
    IF IsSome(problem) THEN Some(Unwrap(problem).problem_type) ELSE None

\* Option::and_then(|problem| problem.details.clone())
details_of(problem) == IF IsSome(problem) THEN Unwrap(problem).details ELSE None

\* the verdict with the duplicate block before the two missing blocks: the
\* fields come from a duplicate where there is one
entry_verdict_duplicate_first(raw_missing, graded_missing, raw_problem, graded_problem) ==
    LET duplicated == IsSome(raw_problem) \/ IsSome(graded_problem)
    IN  [status |-> IF raw_missing \/ graded_missing \/ duplicated
                    THEN "PROBLEM" ELSE "OK",
         problem_type |->
            IF duplicated
            THEN or_else(problem_type_of(raw_problem), problem_type_of(graded_problem))
            ELSE IF graded_missing THEN Some("GRADED_MISSING")
            ELSE IF raw_missing THEN Some("RAW_MISSING")
            ELSE None,
         details |->
            IF duplicated
            THEN or_else(details_of(raw_problem), details_of(graded_problem))
            ELSE IF graded_missing THEN Some(NoGradedText)
            ELSE IF raw_missing THEN Some(NoRawText)
            ELSE None]

\* the verdict without the duplicate block: only a missing side makes a
\* problem
entry_verdict_missing_only(raw_missing, graded_missing, raw_problem, graded_problem) ==
    [status |-> IF raw_missing \/ graded_missing THEN "PROBLEM" ELSE "OK",
     problem_type |->
        IF graded_missing THEN Some("GRADED_MISSING")
        ELSE IF raw_missing THEN Some("RAW_MISSING")
        ELSE None,
     details |->
        IF graded_missing THEN Some(NoGradedText)
        ELSE IF raw_missing THEN Some(NoRawText)
        ELSE None]

\* status, problem_type and details of an entry after the two missing
\* blocks and the duplicate block
entry_verdict(raw_missing, graded_missing, raw_problem, graded_problem) ==
    LET duplicated == IsSome(raw_problem) \/ IsSome(graded_problem)
    IN  [status |-> IF raw_missing \/ graded_missing \/ duplicated
                    THEN "PROBLEM" ELSE "OK",
         problem_type |->
            IF graded_missing THEN Some("GRADED_MISSING")
            ELSE IF raw_missing THEN Some("RAW_MISSING")
            ELSE IF duplicated
            THEN or_else(problem_type_of(raw_problem), problem_type_of(graded_problem))
            ELSE None,
         details |->
            IF graded_missing THEN Some(NoGradedText)
            ELSE IF raw_missing THEN Some(NoRawText)
            ELSE IF duplicated
            THEN or_else(details_of(raw_problem), details_of(graded_problem))
            ELSE None]

\* Option::map(|folder| count_images(&folder.path, rules)) when counts are
\* asked for
image_count(f, folder, crules, include_counts) ==
    IF include_counts /\ IsSome(folder)
    THEN Some(count_images(f, Unwrap(folder).path, crules)) ELSE None

\* Option<T> as the list of what it holds
as_list(o) == IF IsSome(o) THEN <<Unwrap(o)>> ELSE <<>>

\* what one iteration of scan_roots' loop makes of the two resolved sides:
\* the entry, the preview item and the problems in the order it pushes them
scan_item(f, base_key, raw_missing, graded_missing, raw, raw_problem, graded, graded_problem, verdict, crules, include_counts) ==
    [entry |-> [base_key |-> base_key, raw |-> raw, graded |-> graded,
                status |-> verdict.status],
     preview |->
        [base_key |-> base_key,
         raw_path |-> folder_path(raw),
         graded_path |-> folder_path(graded),
         status |-> verdict.status,
         problem_type |-> verdict.problem_type,
         details |-> verdict.details,
         raw_image_count |-> image_count(f, raw, crules, include_counts),
         graded_image_count |-> image_count(f, graded, crules, include_counts),
         survey_id_raw_detected |-> folder_detected(raw),
         survey_id_graded_detected |-> folder_detected(graded)],
     problems |->
        as_list(raw_problem) \o as_list(graded_problem)
        \o (IF raw_missing THEN <<raw_missing_item(base_key, graded)>> ELSE <<>>)
        \o (IF graded_missing THEN <<graded_missing_item(base_key, raw)>> ELSE <<>>)]

\* one iteration, given the two lists and what select_unique made of them
scan_lists(f, base_key, raw_list, graded_list, ru, gu, crules, include_counts) ==
    scan_item(f, base_key, raw_list = <<>>, graded_list = <<>>,
              ru[1], ru[2], gu[1], gu[2],
              entry_verdict(raw_list = <<>>, graded_list = <<>>, ru[2], gu[2]),
              crules, include_counts)

\* the body of scan_roots' loop for one base key
scan_key(f, base_key, rmap, gmap, crules, include_counts) ==
    scan_lists(f, base_key, map_get(rmap, base_key), map_get(gmap, base_key),
               select_unique(base_key, map_get(rmap, base_key), "DUPLICATE_RAW"),
               select_unique(base_key, map_get(gmap, base_key), "DUPLICATE_GRADED"),
               crules, include_counts)

\* the vectors after one more iteration that keeps only the first problem
\* it found
scan_push_first_problem(before, this) ==
    [entries |-> Append(before.entries, this.entry),
     problems |-> before.problems
                    \o (IF this.problems = <<>> THEN <<>> ELSE <<this.problems[1]>>),
     preview |-> Append(before.preview, this.preview)]

\* the vectors after one more iteration
scan_push(before, this) ==
    [entries |-> Append(before.entries, this.entry),
     problems |-> before.problems \o this.problems,
     preview |-> Append(before.preview, this.preview)]

\* scan_roots' loop over the base keys in the order the HashSet yields them
RECURSIVE scan_loop(_, _, _, _, _, _)
scan_loop(f, order, rmap, gmap, crules, include_counts) ==
    IF order = <<>> THEN [entries |-> <<>>, problems |-> <<>>, preview |-> <<>>]
    ELSE scan_push(scan_loop(f, SubSeq(order, 1, Len(order) - 1), rmap, gmap,
                             crules, include_counts),
                   scan_key(f, order[Len(order)], rmap, gmap, crules,
                            include_counts))

\* what scan_roots returns of the vectors its loop filled: the entries and
\* the preview sorted, the problems as pushed
scan_result(looped) ==
    [entries |-> sort_by(looped.entries, "base_key"),
     problems |-> looped.problems,
     preview |-> sort_by(looped.preview, "base_key")]

\* the ScanResult, given the maps of the two discoveries and the iteration
\* order of the HashSet of base keys
scan_roots(f, order, rmap, gmap, crules, include_counts) ==
    scan_result(scan_loop(f, order, rmap, gmap, crules, include_counts))

-----------------------------------------------------------------------------
(* Processing one survey pair *)

\* build_graded_map's loop body for a supported file with identity id
graded_push(before, id, relpath) ==
    [map |-> map_push(before.map, id[1], relpath),
     ambiguity_warnings |-> before.ambiguity_warnings + (IF id[2] THEN 1 ELSE 0)]

\* build_graded_map's loop over the graded files in the order WalkDir
\* yields them: [map, ambiguity_warnings]
RECURSIVE build_graded_map(_, _, _)
build_graded_map(listing, graded_root, crules) ==
    IF listing = <<>> THEN [map |-> EmptyMap, ambiguity_warnings |-> 0]
    ELSE IF ~is_supported_image(listing[Len(listing)], crules)
    THEN build_graded_map(SubSeq(listing, 1, Len(listing) - 1), graded_root, crules)
    ELSE graded_push(
            build_graded_map(SubSeq(listing, 1, Len(listing) - 1), graded_root, crules),
            compute_file_id(listing[Len(listing)], crules),
            normalize_relpath(FilePath(listing[Len(listing)]), graded_root))

\* every file under root, sorted by path
collect_images_any_file(f, listing, crules) == sort_by(listing, "path")

\* the supported files under root, sorted by path
collect_images(f, listing, crules) ==
    sort_by(SelectSeq(listing, LAMBDA x : is_supported_image(x, crules)),
            "path")

\* write_rows_to_writer: the record written for one row
csv_record(row) ==
    <<row.survey_id_base,
      row.raw_relpath,
      row.filename,
      to_string(row.dolphin),
      row.graded_relpath,
      to_string(row.graded_hits),
      row.graded_winner_type,
      IF IsSome(row.survey_id_raw_detected)
      THEN Unwrap(row.survey_id_raw_detected) ELSE <<>>,
      IF IsSome(row.survey_id_graded_detected)
      THEN Unwrap(row.survey_id_graded_detected) ELSE <<>>>>

csv_records(rows) == [i \in DOMAIN rows |-> csv_record(rows[i])]

\* write_problems_csv: the record written for one problem
problem_record(problem) ==
    <<problem.survey_id_base,
      IF IsSome(problem.survey_id_detected)
      THEN Unwrap(problem.survey_id_detected) ELSE <<>>,
      IF IsSome(problem.raw_path) THEN Unwrap(problem.raw_path) ELSE <<>>,
      IF IsSome(problem.graded_path) THEN Unwrap(problem.graded_path) ELSE <<>>,
      problem.problem_type,
      IF IsSome(problem.details) THEN Unwrap(problem.details) ELSE <<>>>>

write_problems_csv(problems) ==
    [i \in DOMAIN problems |-> problem_record(problems[i])]

\* number of rows with the given retain flag
count_dolphin(rows, flag) == Cardinality({i \in DOMAIN rows : rows[i].dolphin = flag})


-----------------------------------------------------------------------------
(* Inputs *)

\* (?i)\b(\d[A-Z](?:_[A-Z])?)\b
DetectedPattern ==
    [kind |-> "token", ci |-> TRUE, wb_start |-> TRUE, wb_end |-> TRUE,
     group |-> TRUE, cap_opt |-> TRUE,
     core |-> <<Digits, UpperChars>>, opt |-> <<{"_"}, UpperChars>>]

\* (?i)\b(\d[A-Z])(?:_[A-Z])?\b
BasePattern == [DetectedPattern EXCEPT !.cap_opt = FALSE]

\* ^(.+?_\d{3,5})(?:[ _][A-Za-z0-9]+)*$
ImageIdPattern == [kind |-> "image_id", lo |-> 3, hi |-> 5, seps |-> {" ", "_"}]

\* (?i)\bi
IndPattern ==
    [kind |-> "token", ci |-> TRUE, wb_start |-> TRUE, wb_end |-> FALSE,
     group |-> FALSE, cap_opt |-> FALSE, core |-> <<{"i"}>>, opt |-> <<>>]

\* a rule document with the given negative and positive token lists
RulesWith(negative, positive) ==
    [extensions |-> <<<<"J", " ">>>>,
     survey_id_regex_detected |-> DetectedPattern,
     survey_id_regex_base |-> BasePattern,
     image_id_regex |-> ImageIdPattern,
     graded_priority_ind_regex |-> IndPattern,
     graded_priority_secondary_tokens |-> <<<<"B">>>>,
     graded_negative_contains_any |-> negative,
     graded_positive_contains_any |-> positive]

\* (?i)\b(\d[A-Z] with the group left open: Regex::new fails on it
InvalidPattern == [kind |-> "invalid"]

\* the rule documents with one of the four patterns invalid
InvalidRules ==
    {[RulesWith(<<>>, <<>>) EXCEPT !.survey_id_regex_detected = InvalidPattern],
     [RulesWith(<<>>, <<>>) EXCEPT !.survey_id_regex_base = InvalidPattern],
     [RulesWith(<<>>, <<>>) EXCEPT !.image_id_regex = InvalidPattern],
     [RulesWith(<<>>, <<>>) EXCEPT !.graded_priority_ind_regex = InvalidPattern]}

\* the negative and positive token lists of the rule documents
TokenLists ==
    {<<<<>>, <<>>>>,
     <<<<<<" ", "n">>>>, <<>>>>,
     <<<<<<"*">>>>, <<>>>>,
     <<<<>>, <<<<" ">>>>>>,
     <<<<>>, <<<<"P">>>>>>,
     <<<<>>, <<<<"p">>, <<"*">>>>>>,
     <<<<<<" ", "n">>>>, <<<<"P">>>>>>}

RawRoot == <<<<"r">>>>
GradedRoot == <<<<"g">>>>

\* the order in which a directory lists its entries
NameOrder ==
    <<<<"x">>, <<"2", "B">>, <<"1", "A">>, <<"1", "a", "_", "B">>,
      <<"i">>, <<"b">>, <<"N">>, <<"p">>, <<"b", ".", "i">>, <<"r">>, <<"g">>>>

SubsetsUpTo(S, n) == {T \in SUBSET S : Cardinality(T) <= n}

\* the directories a root may hold, relative to it: a folder without an
\* identity, three survey folders of which two share the base key 1A, a
\* survey folder below the folder without identity and one below a survey
\* folder
DirUniverse ==
    {<<<<"x">>>>, <<<<"1", "A">>>>, <<<<"1", "a", "_", "B">>>>, <<<<"2", "B">>>>,
     <<<<"x">>, <<"1", "a", "_", "B">>>>, <<<<"1", "A">>, <<"2", "B">>>>}

\* the trees of at most MaxDirs directories: a directory lies in its parent
RelTrees ==
    {t \in SubsetsUpTo(DirUniverse, MaxDirs) :
        \A p \in t : Len(p) > 1 => SubSeq(p, 1, Len(p) - 1) \in t}

File(dir, name, size, meta_ok) ==
    [dir |-> dir, name |-> name, size |-> size, meta_ok |-> meta_ok]

\* Trees vary: every raw directory holds a_123.j, every graded one a_123_q.j
TreeInputs ==
    {[raw_root |-> RawRoot, graded_root |-> GradedRoot,
      dirs |-> {RawRoot, GradedRoot}
                 \cup {RawRoot \o p : p \in rt} \cup {GradedRoot \o p : p \in gt},
      files |-> {File(RawRoot \o p, <<"a", "_", "1", "2", "3", ".", "j">>, 1, TRUE) : p \in rt}
                 \cup {File(GradedRoot \o p, <<"a", "_", "1", "2", "3", "_", "q", ".", "j">>,
                            1, TRUE) : p \in gt},
      readdir |-> NameOrder] :
        rt \in RelTrees, gt \in RelTrees}

\* Files vary under the one pair r/1A, g/1A
PairRaw == RawRoot \o <<<<"1", "A">>>>
PairGraded == GradedRoot \o <<<<"1", "A">>>>

RawUniverse ==
    {File(PairRaw, <<"a", "_", "1", "2", "3", ".", "j">>, 1, TRUE),
     File(PairRaw, <<"b", "_", "1", "2", "3", ".", "J">>, 1, TRUE),
     File(PairRaw \o <<<<"x">>>>, <<"c", ".", "j">>, 2, TRUE),
     File(PairRaw, <<"c", ".", "J">>, 2, FALSE),
     File(PairRaw, <<"a", "_", "1", "2", "3", ".", "t">>, 1, TRUE)}

\* graded images with the identity key a_123
GradedUniverse ==
    {File(PairGraded \o <<<<"i">>>>, <<"a", "_", "1", "2", "3", ".", "j">>, 1, TRUE),
     File(PairGraded \o <<<<"i">>>>, <<"A", "_", "1", "2", "3", ".", "j">>, 1, TRUE),
     File(PairGraded \o <<<<"b">>>>, <<"a", "_", "1", "2", "3", ".", "j">>, 1, TRUE),
     File(PairGraded \o <<<<"b", ".", "i">>>>, <<"a", "_", "1", "2", "3", ".", "j">>, 1, TRUE),
     File(PairGraded \o <<<<"N">>>>, <<"a", "_", "1", "2", "3", ".", "j">>, 1, TRUE),
     File(PairGraded \o <<<<"p">>>>, <<"a", "_", "1", "2", "3", "_", "q", ".", "j">>, 1, TRUE),
     File(PairGraded, <<"a", "_", "1", "2", "3", ".", "j">>, 1, TRUE)}

\* graded images with three identity keys, two of them with unreadable
\* metadata, and one file that is no image
MixedGraded ==
    {File(PairGraded, <<"a", "_", "1", "2", "3", ".", "j">>, 1, FALSE),
     File(PairGraded, <<"c", ".", "j">>, 2, TRUE),
     File(PairGraded \o <<<<"i">>>>, <<"c", ".", "j">>, 2, FALSE),
     File(PairGraded \o <<<<"i">>>>, <<"a", "_", "1", "2", "3", ".", "t">>, 1, TRUE)}

\* the graded images vary beside the one raw image a_123.j
CandidateInputs ==
    {[raw_root |-> RawRoot, graded_root |-> GradedRoot,
      dirs |-> {RawRoot, GradedRoot, PairRaw, PairGraded} \cup {x.dir : x \in gf},
      files |-> {File(PairRaw, <<"a", "_", "1", "2", "3", ".", "j">>, 1, TRUE)} \cup gf,
      readdir |-> NameOrder] :
        gf \in SubsetsUpTo(GradedUniverse, MaxGradedFiles)}

\* the raw images vary beside no graded image or the mixed ones
RawInputs ==
    {[raw_root |-> RawRoot, graded_root |-> GradedRoot,
      dirs |-> {RawRoot, GradedRoot, PairRaw, PairGraded}
                 \cup {x.dir : x \in rf \cup gf},
      files |-> rf \cup gf,
      readdir |-> NameOrder] :
        rf \in SubsetsUpTo(RawUniverse, MaxRawFiles),
        gf \in {{}, MixedGraded}}

\* the arguments of run_single_pair in the runs where they do not vary
DefaultSingle ==
    [graded_dir |-> PairGraded, raw_dir |-> PairRaw, survey_id_override |-> None]

\* the graded directories of a single-pair run: one identity in the path,
\* two identities in the path, none
SingleGradedDirs ==
    {PairGraded, PairGraded \o <<<<"2", "B">>>>, GradedRoot \o <<<<"x">>>>}

\* the overrides of a single-pair run: none, "1a 2b" with two base keys in
\* it, "x" with none
SingleOverrides ==
    {None, Some(<<"1", "a", " ", "2", "b">>), Some(<<"x">>)}

SingleInputs ==
    {[graded_dir |-> g, raw_dir |-> PairRaw, survey_id_override |-> o] :
        g \in SingleGradedDirs, o \in SingleOverrides}

\* the tree of the runs in which the arguments of run_single_pair vary
SingleTree ==
    [raw_root |-> RawRoot, graded_root |-> GradedRoot,
     dirs |-> {RawRoot, GradedRoot, PairRaw, PairGraded}
                \cup {x.dir : x \in MixedGraded},
     files |-> {File(PairRaw, <<"a", "_", "1", "2", "3", ".", "j">>, 1, TRUE),
                File(PairRaw, <<"b", "_", "1", "2", "3", ".", "J">>, 1, TRUE),
                File(PairRaw, <<"c", ".", "J">>, 2, FALSE),
                File(PairRaw, <<"a", "_", "1", "2", "3", ".", "t">>, 1, TRUE)}
                \cup MixedGraded,
     readdir |-> NameOrder]

-----------------------------------------------------------------------------
(* State *)

NoScan == [entries |-> <<>>, problems |-> <<>>, preview |-> <<>>]

NoPair ==
    [base_key |-> <<>>, raw |-> None, graded |-> None, map |-> EmptyMap,
     raw_files |-> <<>>, index |-> 0, rows |-> <<>>, ambiguity_warnings |-> 0]

ZeroTotals ==
    [next_entry |-> 1, processed_surveys |-> 0, total_rows |-> 0,
     dolphin_yes |-> 0, dolphin_no |-> 0, ambiguity_warnings |-> 0]

EmptyDisk ==
    [output_dir |-> FALSE, per_survey_dir |-> FALSE, per_survey |-> EmptyMap,
     merged |-> None, problems |-> None]

NoVisits == [raw |-> <<>>, graded |-> <<>>]

NoRun == [mode |-> "none", disk |-> EmptyDisk, result |-> None]

InitState ==
    /\ pc = "idle"
    /\ mode = "none"
    /\ compiled = None
    /\ walker = <<>>
    /\ visited = NoVisits
    /\ raw_map = EmptyMap
    /\ graded_map = EmptyMap
    /\ scan = NoScan
    /\ pair = NoPair
    /\ totals = ZeroTotals
    /\ events = <<>>
    /\ disk = EmptyDisk
    /\ result = None
    /\ prev = NoRun

AllOptions == [write_per_survey : BOOLEAN, write_merged : BOOLEAN]
BothOutputs == [write_per_survey |-> TRUE, write_merged |-> TRUE]

\* the survey folders vary
InitTrees ==
    /\ fs \in TreeInputs
    /\ rules = RulesWith(<<>>, <<>>)
    /\ options = BothOutputs
    /\ single = DefaultSingle
    /\ InitState

\* the graded candidates and the token lists vary
InitCandidates ==
    /\ fs \in CandidateInputs
    /\ rules \in {RulesWith(t[1], t[2]) : t \in TokenLists}
    /\ options = BothOutputs
    /\ single = DefaultSingle
    /\ InitState

\* the raw images, the output options and the validity of a pattern vary
InitRaw ==
    /\ fs \in RawInputs
    /\ rules \in {RulesWith(<<>>, <<>>)} \cup InvalidRules
    /\ options \in AllOptions
    /\ single = DefaultSingle
    /\ InitState

\* the arguments of run_single_pair vary
InitSingle ==
    /\ fs = SingleTree
    /\ rules = RulesWith(<<>>, <<>>)
    /\ options = BothOutputs
    /\ single \in SingleInputs
    /\ InitState

Init == InitTrees \/ InitCandidates \/ InitRaw \/ InitSingle


-----------------------------------------------------------------------------
(* Entry points and their steps *)

\* an entry point starts: the files and result of a previous run of the
\* same entry point are kept aside; with the rules compiled the raw walk starts, or run_single_pair
\* creates its output directory; otherwise the entry point returns the error
Enter(m, compiled_result) ==
    /\ pc \in {"idle", "done"}
    /\ mode' = m
    /\ prev' = IF pc = "done" /\ mode = m
               THEN [mode |-> mode, disk |-> disk, result |-> result]
               ELSE NoRun
    /\ visited' = NoVisits
    /\ raw_map' = EmptyMap
    /\ graded_map' = EmptyMap
    /\ scan' = NoScan
    /\ pair' = NoPair
    /\ totals' = ZeroTotals
    /\ events' = <<>>
    /\ disk' = IF compiled_result.ok /\ m = "single"
               THEN [EmptyDisk EXCEPT !.output_dir = TRUE]
               ELSE EmptyDisk
    /\ IF compiled_result.ok
       THEN /\ compiled' = Some(compiled_result.value)
            /\ walker' = IF m = "single" THEN <<>> ELSE walker_new(fs.raw_root)
            /\ pc' = IF m = "single" THEN "derive" ELSE "discover_raw"
            /\ result' = None
       ELSE /\ compiled' = None
            /\ walker' = <<>>
            /\ pc' = "done"
            /\ result' = Some(Err(compiled_result.error))
    /\ UNCHANGED <<fs, rules, options, single>>

\* preview_root_scan up to the first directory of the raw walk
PreviewRootScan == Enter("preview", compile_rules(rules))

\* run_root_scan up to the first directory of the raw walk
RunRootScan == Enter("run", compile_rules(rules))

\* run_single_pair up to the derivation of the survey identity
RunSinglePair == Enter("single", compile_rules(rules))

\* the walk goes on, or the raw walk is over and the graded one starts, or
\* the graded walk is over and discover_surveys returns to scan_roots
Walked(side, rest) ==
    IF rest # <<>> THEN walker' = rest /\ pc' = pc
    ELSE IF side = "raw"
    THEN walker' = walker_new(fs.graded_root) /\ pc' = "discover_graded"
    ELSE walker' = <<>> /\ pc' = "scan"

\* discover_surveys' loop body for the directory path with the base key
\* and the detected identity derived from it
Discovered(side, path, base_key, detected_id) ==
    /\ visited' = [visited EXCEPT ![side] = Append(@, path)]
    /\ raw_map' =
        IF IsSome(base_key) /\ side = "raw"
        THEN map_push(raw_map, Unwrap(base_key),
                      [path |-> path, detected_id |-> detected_id])
        ELSE raw_map
    /\ graded_map' =
        IF IsSome(base_key) /\ side = "graded"
        THEN map_push(graded_map, Unwrap(base_key),
                      [path |-> path, detected_id |-> detected_id])
        ELSE graded_map
    /\ Walked(side, walker_after_entry(fs, walker, IsSome(base_key)))

\* one iteration of discover_surveys' loop on one side
DiscoverSurveys(side) ==
    /\ pc = (IF side = "raw" THEN "discover_raw" ELSE "discover_graded")
    /\ Discovered(side, walker_entry(walker),
                  discover_base_key(walker_entry(walker), Unwrap(compiled)),
                  extract_detected_id(walker_entry(walker),
                                      Unwrap(compiled).detected_re))
    /\ UNCHANGED <<fs, rules, options, single, mode, compiled, scan, pair, totals,
                   events, disk, result, prev>>

\* what the caller does with the ScanResult: preview_root_scan returns the
\* preview; run_root_scan creates the output directories, writes the
\* problems CSV and opens the merged CSV
Scanned(scanned) ==
    /\ scan' = scanned
    /\ IF mode = "preview"
       THEN /\ result' = Some(Ok(scanned.preview))
            /\ pc' = "done"
            /\ disk' = disk
       ELSE /\ result' = result
            /\ pc' = "entries"
            /\ disk' = [output_dir |-> TRUE,
                        per_survey_dir |-> options.write_per_survey,
                        per_survey |-> EmptyMap,
                        merged |-> IF options.write_merged THEN Some(<<>>) ELSE None,
                        problems |-> IF scanned.problems # <<>>
                                     THEN Some(write_problems_csv(scanned.problems))
                                     ELSE None]

\* the rest of scan_roots, the HashSet of base keys iterated in any order,
\* and of its caller up to the loop over the entries
ScanRoots ==
    /\ pc = "scan"
    /\ \E order \in Orderings(DOMAIN raw_map \cup DOMAIN graded_map) :
        Scanned(scan_roots(fs, order, raw_map, graded_map, Unwrap(compiled),
                           mode = "preview"))
    /\ UNCHANGED <<fs, rules, options, single, mode, compiled, walker, visited, raw_map,
                   graded_map, pair, totals, events, prev>>

\* the entry the loop of run_root_scan is at
CurrentEntry == scan.entries[totals.next_entry]

\* the caller after process_pair returned.  run_root_scan: the per-survey
\* CSV, the merged rows and the counters; run_single_pair: the output CSV
PairDone(base_key, records, rows, yes, warnings) ==
    IF mode = "single"
    THEN /\ pc' = "summary"
         /\ disk' = [disk EXCEPT !.merged = Some(records)]
         /\ totals' = totals
    ELSE /\ pc' = "entries"
         /\ disk' = [disk EXCEPT
                        !.per_survey = IF options.write_per_survey
                                       THEN (base_key :> records) @@ @
                                       ELSE @,
                        !.merged = IF IsSome(@) THEN Some(Unwrap(@) \o records) ELSE @]
         /\ totals' = [next_entry |-> totals.next_entry + 1,
                       processed_surveys |-> totals.processed_surveys + 1,
                       total_rows |-> totals.total_rows + Len(rows),
                       dolphin_yes |-> totals.dolphin_yes + yes,
                       dolphin_no |-> totals.dolphin_no + (Len(rows) - yes),
                       ambiguity_warnings |-> totals.ambiguity_warnings + warnings]

\* an entry whose status is not OK ends the run with an error
SkipEntry_aborts ==
    /\ pc = "entries"
    /\ totals.next_entry <= Len(scan.entries)
    /\ CurrentEntry.status # "OK"
    /\ pc' = "done"
    /\ result' = Some(Err("Message"))
    /\ UNCHANGED <<fs, rules, options, single, mode, compiled, walker, visited,
                   raw_map, graded_map, scan, pair, totals, events, disk, prev>>

\* an entry whose status is not OK is passed over
SkipEntry ==
    /\ pc = "entries"
    /\ totals.next_entry <= Len(scan.entries)
    /\ CurrentEntry.status # "OK"
    /\ totals' = [totals EXCEPT !.next_entry = @ + 1]
    /\ UNCHANGED <<fs, rules, options, single, pc, mode, compiled, walker, visited,
                   raw_map, graded_map, scan, pair, events, disk, result,
                   prev>>

\* process_pair before its loop: the graded map and the sorted raw files;
\* with no raw image it returns at once
PairStarted(base_key, raw, graded, graded_result, raw_files) ==
    /\ pair' = [base_key |-> base_key,
                raw |-> Some(raw),
                graded |-> Some(graded),
                map |-> graded_result.map,
                raw_files |-> raw_files,
                index |-> 0,
                rows |-> <<>>,
                ambiguity_warnings |-> graded_result.ambiguity_warnings]
    /\ IF raw_files # <<>>
       THEN pc' = "images" /\ UNCHANGED <<totals, disk>>
       ELSE PairDone(base_key, <<>>, <<>>, 0, graded_result.ambiguity_warnings)

\* process_pair on two folders, the files of each listed in any order
StartPair(base_key, raw, graded) ==
    \E graded_result \in
            {build_graded_map(glisting, graded.path, Unwrap(compiled)) :
                glisting \in Orderings(files_under(fs, graded.path))} :
        \E raw_files \in
                {collect_images(fs, rlisting, Unwrap(compiled)) :
                    rlisting \in Orderings(files_under(fs, raw.path))} :
            PairStarted(base_key, raw, graded, graded_result, raw_files)

\* an OK entry: its two folders are taken (expect) and process_pair starts
BeginPair ==
    /\ pc = "entries"
    /\ totals.next_entry <= Len(scan.entries)
    /\ CurrentEntry.status = "OK"
    /\ IF IsNone(CurrentEntry.raw) \/ IsNone(CurrentEntry.graded)
       THEN pc' = "panicked" /\ UNCHANGED <<pair, totals, disk>>
       ELSE StartPair(CurrentEntry.base_key, Unwrap(CurrentEntry.raw),
                      Unwrap(CurrentEntry.graded))
    /\ UNCHANGED <<fs, rules, options, single, mode, compiled, walker, visited, raw_map,
                   graded_map, scan, events, result, prev>>

\* the loop body that keeps the row only if the event was delivered
RowPushed_drops_undelivered(rows, warnings, delivered) ==
    /\ pair' = [pair EXCEPT !.index = @ + 1,
                            !.rows = IF delivered THEN rows ELSE @,
                            !.ambiguity_warnings = warnings]
    /\ events' = Append(events,
                        [survey_id_base |-> pair.base_key,
                         processed |-> pair.index + 1,
                         total |-> Len(pair.raw_files),
                         delivered |-> delivered])
    /\ IF pair.index + 1 < Len(pair.raw_files)
       THEN UNCHANGED <<pc, totals, disk>>
       ELSE PairDone(pair.base_key, csv_records(rows), rows,
                     count_dolphin(rows, 1), warnings)

\* the loop body that counts the images processed from 0
RowPushed_zero_based(rows, warnings, delivered) ==
    /\ pair' = [pair EXCEPT !.index = @ + 1, !.rows = rows,
                            !.ambiguity_warnings = warnings]
    /\ events' = Append(events,
                        [survey_id_base |-> pair.base_key,
                         processed |-> pair.index,
                         total |-> Len(pair.raw_files),
                         delivered |-> delivered])
    /\ IF pair.index + 1 < Len(pair.raw_files)
       THEN UNCHANGED <<pc, totals, disk>>
       ELSE PairDone(pair.base_key, csv_records(rows), rows,
                     count_dolphin(rows, 1), warnings)

\* process_pair's loop body after the row is built: the row is pushed and
\* the progress event emitted; after the last image process_pair returns
RowPushed(rows, warnings, delivered) ==
    /\ pair' = [pair EXCEPT !.index = @ + 1, !.rows = rows,
                            !.ambiguity_warnings = warnings]
    /\ events' = Append(events,
                        [survey_id_base |-> pair.base_key,
                         processed |-> pair.index + 1,
                         total |-> Len(pair.raw_files),
                         delivered |-> delivered])
    /\ IF pair.index + 1 < Len(pair.raw_files)
       THEN UNCHANGED <<pc, totals, disk>>
       ELSE PairDone(pair.base_key, csv_records(rows), rows,
                     count_dolphin(rows, 1), warnings)

\* one iteration of process_pair's loop: the row of the next raw image and
\* its progress event, delivered or not
ProcessImage ==
    /\ pc = "images"
    /\ \E delivered \in BOOLEAN :
        RowPushed(Append(pair.rows,
                         pair_row(pair.base_key, Unwrap(pair.raw),
                                  Unwrap(pair.graded),
                                  pair.raw_files[pair.index + 1], pair.map,
                                  Unwrap(compiled))),
                  pair.ambiguity_warnings
                    + (IF compute_file_id(pair.raw_files[pair.index + 1],
                                          Unwrap(compiled))[2] THEN 1 ELSE 0),
                  delivered)
    /\ UNCHANGED <<fs, rules, options, single, mode, compiled, walker, visited, raw_map,
                   graded_map, scan, result, prev>>

\* run_root_scan after the loop over the entries: the summary
ReturnSummary ==
    /\ pc = "entries"
    /\ totals.next_entry > Len(scan.entries)
    /\ result' = Some(Ok([processed_surveys |-> totals.processed_surveys,
                          total_rows |-> totals.total_rows,
                          dolphin_yes |-> totals.dolphin_yes,
                          dolphin_no |-> totals.dolphin_no,
                          ambiguity_warnings |-> totals.ambiguity_warnings,
                          problems_count |-> Len(scan.problems),
                          merged_csv_path |-> IF options.write_merged
                                              THEN Some("merged") ELSE None,
                          problems_csv_path |-> IF scan.problems # <<>>
                                                THEN Some("problems") ELSE None]))
    /\ pc' = "done"
    /\ UNCHANGED <<fs, rules, options, single, mode, compiled, walker, visited, raw_map,
                   graded_map, scan, pair, totals, events, disk, prev>>

\* run_single_pair's (detected_full, base_key): from the override if it
\* yields a base key, else from the identity detected in the graded
\* directory's path, else none
single_detected(args, crules) ==
    LET from_override ==
            IF IsSome(args.survey_id_override)
            THEN extract_base_key(Unwrap(args.survey_id_override), crules.base_re)
            ELSE None
        detected == extract_detected_id(args.graded_dir, crules.detected_re)
        from_detected ==
            IF IsSome(detected)
            THEN extract_base_key(Unwrap(detected), crules.base_re)
            ELSE None
    IN  IF IsSome(from_override)
        THEN Some(<<Unwrap(args.survey_id_override), Unwrap(from_override)>>)
        ELSE IF IsSome(from_detected)
        THEN Some(<<Unwrap(detected), Unwrap(from_detected)>>)
        ELSE None

\* run_single_pair with the identity derived or not: the error, or the two
\* SurveyFolders and process_pair on them
Derived(detected, raw_detected) ==
    IF IsNone(detected)
    THEN /\ result' = Some(Err("Message"))
         /\ pc' = "done"
         /\ UNCHANGED <<pair, totals, disk>>
    ELSE /\ result' = result
         /\ StartPair(Unwrap(detected)[2],
                      [path |-> single.raw_dir, detected_id |-> raw_detected],
                      [path |-> single.graded_dir,
                       detected_id |-> Some(Unwrap(detected)[1])])

\* run_single_pair from the derivation of the survey identity to
\* process_pair's loop
DeriveSurveyId ==
    /\ pc = "derive"
    /\ Derived(single_detected(single, Unwrap(compiled)),
               extract_detected_id(single.raw_dir, Unwrap(compiled).detected_re))
    /\ UNCHANGED <<fs, rules, options, single, mode, compiled, walker, visited,
                   raw_map, graded_map, scan, events, prev>>

\* run_single_pair after the output CSV is written: the summary
ReturnSingleSummary ==
    /\ pc = "summary"
    /\ result' = Some(Ok([processed_surveys |-> 1,
                          total_rows |-> Len(pair.rows),
                          dolphin_yes |-> count_dolphin(pair.rows, 1),
                          dolphin_no |-> Len(pair.rows) - count_dolphin(pair.rows, 1),
                          ambiguity_warnings |-> pair.ambiguity_warnings,
                          problems_count |-> 0,
                          merged_csv_path |-> Some("output"),
                          problems_csv_path |-> None]))
    /\ pc' = "done"
    /\ UNCHANGED <<fs, rules, options, single, mode, compiled, walker, visited,
                   raw_map, graded_map, scan, pair, totals, events, disk, prev>>

Next ==
    \/ PreviewRootScan
    \/ RunRootScan
    \/ RunSinglePair
    \/ DeriveSurveyId
    \/ ReturnSingleSummary
    \/ DiscoverSurveys("raw")
    \/ DiscoverSurveys("graded")
    \/ ScanRoots
    \/ SkipEntry
    \/ BeginPair
    \/ ProcessImage
    \/ ReturnSummary

Spec == Init /\ [][Next]_vars

-----------------------------------------------------------------------------
(* Properties of the rows process_pair pushes.  pair.rows[i] is the row of *)
(* the raw image pair.raw_files[i]; its candidates are the graded paths    *)
(* the graded map holds under the image's identity key.                    *)

RowCandidates(i) ==
    candidates_of(pair.map,
                  compute_file_id(pair.raw_files[i], Unwrap(compiled))[1])

Wildcard == <<"*">>

\* the class of a candidate path as the rules describe it
ClassOf(path) ==
    IF is_match(Unwrap(compiled).ind_re, to_lowercase(path)) THEN "IND"
    ELSE IF \E t \in Range(Unwrap(compiled).secondary_tokens) :
                contains(to_lowercase(path), t)
    THEN "SECONDARY"
    ELSE "OTHER"

RankOf(path) ==
    LET class == ClassOf(path)
    IN  CASE class = "IND" -> 1
          [] class = "SECONDARY" -> 2
          [] OTHER -> 99

\* a is not after b in the winner ordering: rank, then length, then string
NotAfter(a, b) ==
    LET rank_a == RankOf(a)
        rank_b == RankOf(b)
    IN  \/ rank_a < rank_b
        \/ /\ rank_a = rank_b
           /\ \/ Len(a) < Len(b)
              \/ Len(a) = Len(b) /\ cmp_str(a, b) <= 0

\* some candidate holds some token of the list as a substring, the case
\* of the letters ignored
SomeCandidateContains(candidates, tokens) ==
    \E c \in DOMAIN candidates :
        \E t \in DOMAIN tokens :
            contains(to_lowercase(candidates[c]), to_lowercase(tokens[t]))

\* the positive condition of the retain flag
PositiveCondition(candidates, tokens) ==
    \/ tokens = <<>>
    \/ Wildcard \in Range(tokens)
    \/ SomeCandidateContains(candidates, tokens)

\* C1: for every row of a raw image with candidates, the winning path is a
\* candidate that is minimal under (rank IND=1, SECONDARY=2, OTHER=99; then
\* length; then string), the winner type is the class of that candidate,
\* and with an IND candidate in the list the winner is IND
C1_WinnerIsMinimal ==
    \A i \in DOMAIN pair.rows :
        LET candidates == RowCandidates(i)
        IN  candidates # <<>> =>
                /\ pair.rows[i].graded_relpath \in Range(candidates)
                /\ \A c \in Range(candidates) :
                        NotAfter(pair.rows[i].graded_relpath, c)
                /\ pair.rows[i].graded_winner_type
                        = ClassOf(pair.rows[i].graded_relpath)
                /\ (\E c \in Range(candidates) : ClassOf(c) = "IND")
                        => pair.rows[i].graded_winner_type = "IND"

\* an IND candidate won over a shorter candidate of another class
C1_Witness ==
    \E i \in DOMAIN pair.rows :
        /\ pair.rows[i].graded_winner_type = "IND"
        /\ \E c \in Range(RowCandidates(i)) :
                /\ ClassOf(c) # "IND"
                /\ Len(c) < Len(pair.rows[i].graded_relpath)

\* C2 as stated: for every row of a raw image with candidates, the retain
\* flag is 1 iff no candidate contains a negative token and the positive
\* condition holds
C2_Original ==
    \A i \in DOMAIN pair.rows :
        RowCandidates(i) # <<>> =>
            (pair.rows[i].dolphin = 1 <=>
                /\ ~SomeCandidateContains(RowCandidates(i),
                                          Unwrap(compiled).negative_tokens)
                /\ PositiveCondition(RowCandidates(i),
                                     Unwrap(compiled).positive_tokens))

\* C2 amended: for every row of a raw image with candidates, the retain
\* flag is 1 iff the negative list does not hold the token "*", no
\* candidate contains a negative token, and the positive condition holds;
\* otherwise it is 0
C2_RetainFlag ==
    \A i \in DOMAIN pair.rows :
        RowCandidates(i) # <<>> =>
            /\ pair.rows[i].dolphin \in {0, 1}
            /\ pair.rows[i].dolphin = 1 <=>
                /\ Wildcard \notin Range(Unwrap(compiled).negative_tokens)
                /\ ~SomeCandidateContains(RowCandidates(i),
                                          Unwrap(compiled).negative_tokens)
                /\ PositiveCondition(RowCandidates(i),
                                     Unwrap(compiled).positive_tokens)

\* a row is retained with negative and positive tokens in the rules, the
\* positive token found in a candidate that did not win
C2_Witness ==
    \E i \in DOMAIN pair.rows :
        /\ pair.rows[i].dolphin = 1
        /\ Unwrap(compiled).negative_tokens # <<>>
        /\ Unwrap(compiled).positive_tokens # <<>>
        /\ Wildcard \notin Range(Unwrap(compiled).positive_tokens)
        /\ ~SomeCandidateContains(<<pair.rows[i].graded_relpath>>,
                                  Unwrap(compiled).positive_tokens)

\* C3: with "*" in the negative list every row of a raw image with
\* candidates has retain flag 0; with "*" in the positive list the
\* positive condition holds, so such a row is retained unless the negative
\* test is true
C3_WildcardAlwaysMatches ==
    \A i \in DOMAIN pair.rows :
        RowCandidates(i) # <<>> =>
            /\ Wildcard \in Range(Unwrap(compiled).negative_tokens)
                    => pair.rows[i].dolphin = 0
            /\ (/\ Wildcard \in Range(Unwrap(compiled).positive_tokens)
                /\ Wildcard \notin Range(Unwrap(compiled).negative_tokens)
                /\ ~SomeCandidateContains(RowCandidates(i),
                                          Unwrap(compiled).negative_tokens))
                    => pair.rows[i].dolphin = 1

\* a row with candidates, none of which holds the character "*", is
\* rejected under a negative list with the token "*"
C3_Witness ==
    \E i \in DOMAIN pair.rows :
        /\ RowCandidates(i) # <<>>
        /\ Wildcard \in Range(Unwrap(compiled).negative_tokens)
        /\ ~SomeCandidateContains(RowCandidates(i), <<Wildcard>>)
        /\ pair.rows[i].dolphin = 0

\* C4: the row of a raw image without candidates has retain flag 0, the
\* graded path RAW, the winner type RAW and 0 hits, and a row has the
\* winner type RAW only when it has no candidates
C4_NoCandidatesRow ==
    \A i \in DOMAIN pair.rows :
        /\ RowCandidates(i) = <<>> =>
                /\ pair.rows[i].dolphin = 0
                /\ pair.rows[i].graded_relpath = RawText
                /\ pair.rows[i].graded_winner_type = "RAW"
                /\ pair.rows[i].graded_hits = 0
        /\ pair.rows[i].graded_winner_type = "RAW" =>
                /\ RowCandidates(i) = <<>>
                /\ pair.rows[i].graded_hits = 0

\* a raw image without candidates got its row under a positive list with
\* the token "*"
C4_Witness ==
    \E i \in DOMAIN pair.rows :
        /\ RowCandidates(i) = <<>>
        /\ Wildcard \in Range(Unwrap(compiled).positive_tokens)
        /\ pair.rows[i].graded_winner_type = "RAW"

-----------------------------------------------------------------------------
(* Properties of scan_roots.  Once the scan has returned, raw_map and      *)
(* graded_map are the two discoveries and scan is the ScanResult.          *)

AfterScan == pc \in {"entries", "images", "done", "panicked"} /\ IsSome(compiled)

BaseKeys == DOMAIN raw_map \cup DOMAIN graded_map

RawList(k) == IF k \in DOMAIN raw_map THEN raw_map[k] ELSE <<>>
GradedList(k) == IF k \in DOMAIN graded_map THEN graded_map[k] ELSE <<>>

EntriesOf(k) == {i \in DOMAIN scan.entries : scan.entries[i].base_key = k}

\* the problem records of one type for one base key
ProblemsOf(k, problem_type) ==
    {i \in DOMAIN scan.problems :
        /\ scan.problems[i].survey_id_base = k
        /\ scan.problems[i].problem_type = problem_type}

\* C5: after scan_roots there is exactly one entry per base key of the two
\* maps; the entry is OK iff the raw and the graded list hold one folder
\* each, and then both folders are present; any other entry is PROBLEM;
\* the expect calls on an OK entry never fail
C5_OneEntryPerKey ==
    /\ pc # "panicked"
    /\ AfterScan =>
        /\ Len(scan.entries) = Cardinality(BaseKeys)
        /\ \A k \in BaseKeys : Cardinality(EntriesOf(k)) = 1
        /\ \A i \in DOMAIN scan.entries :
            LET e == scan.entries[i]
                paired == Len(RawList(e.base_key)) = 1
                            /\ Len(GradedList(e.base_key)) = 1
            IN  /\ e.base_key \in BaseKeys
                /\ e.status = "OK" <=> paired
                /\ e.status \in {"OK", "PROBLEM"}
                /\ paired => /\ e.raw = Some(RawList(e.base_key)[1])
                             /\ e.graded = Some(GradedList(e.base_key)[1])

\* a full run processed the pair of an OK entry and passed over a PROBLEM
\* entry with one folder on one side and two on the other
C5_Witness ==
    /\ pc = "done"
    /\ mode = "run"
    /\ totals.processed_surveys >= 1
    /\ \E i \in DOMAIN scan.entries :
        /\ scan.entries[i].status = "PROBLEM"
        /\ Len(RawList(scan.entries[i].base_key)) = 2
        /\ Len(GradedList(scan.entries[i].base_key)) = 1

\* C6: a base key with an empty raw (graded) list has exactly one
\* RAW_MISSING (GRADED_MISSING) problem record and a PROBLEM entry, and the
\* problems_count of a full run is the number of missing sides plus the
\* number of duplicated sides over all base keys
C6_MissingRecords ==
    AfterScan =>
        /\ \A k \in BaseKeys :
            /\ RawList(k) = <<>> =>
                /\ Cardinality(ProblemsOf(k, "RAW_MISSING")) = 1
                /\ \A i \in EntriesOf(k) : scan.entries[i].status = "PROBLEM"
            /\ GradedList(k) = <<>> =>
                /\ Cardinality(ProblemsOf(k, "GRADED_MISSING")) = 1
                /\ \A i \in EntriesOf(k) : scan.entries[i].status = "PROBLEM"
        /\ (pc = "done" /\ mode = "run") =>
            /\ IsSome(result)
            /\ Unwrap(result).ok
            /\ Unwrap(result).value.problems_count =
                    Cardinality({k \in BaseKeys : RawList(k) = <<>>})
                    + Cardinality({k \in BaseKeys : GradedList(k) = <<>>})
                    + Cardinality({k \in BaseKeys : Len(RawList(k)) >= 2})
                    + Cardinality({k \in BaseKeys : Len(GradedList(k)) >= 2})

\* a full run returned its summary for trees with a raw side missing, a
\* graded side missing and a duplicated side
C6_Witness ==
    /\ pc = "done"
    /\ mode = "run"
    /\ \E k \in BaseKeys : RawList(k) = <<>>
    /\ \E k \in BaseKeys : GradedList(k) = <<>> /\ Len(RawList(k)) >= 2
    /\ Unwrap(result).value.problems_count = 3

\* the directories the walk of one side yielded that are recorded under
\* the base key k, in the order the walk yielded them
WalkOrder(side, list) ==
    SelectSeq(visited[side], LAMBDA p : \E i \in DOMAIN list : list[i].path = p)

\* the paths joined by "; "
JoinedPaths(paths) ==
    join([i \in DOMAIN paths |-> to_string_lossy(paths[i])], <<";", " ">>)

\* uniqueness selection on one side of one entry
UniqueSide(k, list, resolved, duplicate_type, walked) ==
    /\ Len(list) = 0 => resolved = None
    /\ Len(list) = 1 => resolved = Some(list[1])
    /\ Len(list) <= 1 => ProblemsOf(k, duplicate_type) = {}
    /\ Len(list) >= 2 =>
        /\ resolved = None
        /\ Cardinality(ProblemsOf(k, duplicate_type)) = 1
        /\ \A i \in ProblemsOf(k, duplicate_type) :
                scan.problems[i].details = Some(JoinedPaths(walked))

\* C7: on each side of each entry a list of 0 or 1 folders resolves to
\* that folder (or none) without a duplicate problem, and a list of 2 or
\* more resolves to none with exactly one DUPLICATE_RAW / DUPLICATE_GRADED
\* problem for the base key whose details are the paths of all the
\* folders, in walk order, joined by "; "
C7_UniquenessSelection ==
    AfterScan =>
        \A i \in DOMAIN scan.entries :
            /\ UniqueSide(scan.entries[i].base_key,
                          RawList(scan.entries[i].base_key),
                          scan.entries[i].raw, "DUPLICATE_RAW",
                          WalkOrder("raw", RawList(scan.entries[i].base_key)))
            /\ UniqueSide(scan.entries[i].base_key,
                          GradedList(scan.entries[i].base_key),
                          scan.entries[i].graded, "DUPLICATE_GRADED",
                          WalkOrder("graded", GradedList(scan.entries[i].base_key)))

\* a DUPLICATE_RAW problem was recorded for two folders that the walk
\* yielded in the reverse of their sorted order, next to an entry with one
\* graded folder
C7_Witness ==
    /\ AfterScan
    /\ \E i \in DOMAIN scan.problems :
        /\ scan.problems[i].problem_type = "DUPLICATE_RAW"
        /\ Len(RawList(scan.problems[i].survey_id_base)) = 2
        /\ cmp_path(RawList(scan.problems[i].survey_id_base)[1].path,
                    RawList(scan.problems[i].survey_id_base)[2].path) > 0
    /\ \E i \in DOMAIN scan.entries : IsSome(scan.entries[i].graded)

-----------------------------------------------------------------------------
(* Properties of discover_surveys.  visited[side] is what the walk of the  *)
(* side yielded so far; the map of the side records the survey folders.    *)

RootOf(side) == IF side = "raw" THEN fs.raw_root ELSE fs.graded_root
MapOf(side) == IF side = "raw" THEN raw_map ELSE graded_map

\* the paths of the survey folders the map of the side records
Recorded(side) ==
    UNION {{MapOf(side)[k][i].path : i \in DOMAIN MapOf(side)[k]} :
              k \in DOMAIN MapOf(side)}

ProperDescendant(p, q) == Len(p) > Len(q) /\ SubSeq(p, 1, Len(q)) = q

YieldsBaseKey(path) == IsSome(discover_base_key(path, Unwrap(compiled)))

\* the walk of the side is over
WalkOver(side) ==
    /\ IsSome(compiled)
    /\ mode \in {"preview", "run"}
    /\ IF side = "raw" THEN pc \notin {"idle", "discover_raw"}
       ELSE pc \notin {"idle", "discover_raw", "discover_graded"}

\* C10: on each side no recorded survey folder lies below another one and
\* no directory below a recorded folder is visited; once the walk is over
\* the visited directories are those without an ancestor that yields a
\* base key, and the recorded ones are the visited ones that yield a base
\* key
C10_NoNestedSurveyFolders ==
    \A side \in {"raw", "graded"} :
        LET recorded == Recorded(side)
        IN  /\ \A p \in recorded :
                /\ \A q \in recorded : ~ProperDescendant(p, q)
                /\ \A i \in DOMAIN visited[side] :
                        ~ProperDescendant(visited[side][i], p)
            /\ WalkOver(side) =>
                /\ Range(visited[side]) =
                        {d \in fs.dirs :
                            /\ IsUnder(d, RootOf(side))
                            /\ \A a \in fs.dirs :
                                  (IsUnder(a, RootOf(side)) /\ ProperDescendant(d, a))
                                    => ~YieldsBaseKey(a)}
                /\ recorded =
                        {d \in Range(visited[side]) : YieldsBaseKey(d)}

\* both walks are over: on the raw side a survey folder was recorded below
\* a visited directory that yields no base key, on the graded side a
\* directory that yields a base key lies unvisited below a recorded folder
C10_Witness ==
    /\ WalkOver("graded")
    /\ \E p \in Recorded("raw") :
        \E i \in DOMAIN visited.raw :
            /\ visited.raw[i] # fs.raw_root
            /\ ProperDescendant(p, visited.raw[i])
            /\ visited.raw[i] \notin Recorded("raw")
    /\ \E p \in Recorded("graded") :
        \E d \in fs.dirs :
            /\ ProperDescendant(d, p)
            /\ YieldsBaseKey(d)
            /\ d \notin Range(visited.graded)

-----------------------------------------------------------------------------
(* Properties of the order of the results and of two runs in a row.  prev  *)
(* holds the files and the result of the run before the current one.       *)

\* the base keys of a list of records with a base_key field are ascending
AscendingBy(keys) ==
    \A i, j \in DOMAIN keys : i < j => cmp_str(keys[i], keys[j]) <= 0

\* field n of every record of a CSV file
Column(records, n) == [i \in DOMAIN records |-> records[i][n]]

\* C8: the entries and the problems scan_roots returns are both sorted by
\* base key ascending, whatever the iteration order of the base keys, and
\* so are the rows of the problems CSV
C8_SortedByBaseKey ==
    AfterScan =>
        /\ AscendingBy([i \in DOMAIN scan.entries |-> scan.entries[i].base_key])
        /\ AscendingBy([i \in DOMAIN scan.problems |->
                            scan.problems[i].survey_id_base])
        /\ IsSome(disk.problems) => AscendingBy(Column(Unwrap(disk.problems), 1))

\* the rows of the surveys and of the merged file are in order: raw paths
\* ascending within a survey, base keys ascending in the merged file
RowsInOrder ==
    /\ \A k \in DOMAIN disk.per_survey :
            AscendingBy(Column(disk.per_survey[k], 2))
    /\ IsSome(disk.merged) => AscendingBy(Column(Unwrap(disk.merged), 1))

\* a full run has returned its summary after another full run returned its
TwoFullRuns ==
    /\ pc = "done"
    /\ mode = "run"
    /\ prev.mode = "run"
    /\ IsSome(result)
    /\ Unwrap(result).ok

\* C9: the second of two full runs on the same trees and rules wrote the
\* same per-survey files, the same merged file and the same problems file
\* as the first, whatever the iteration order of the base keys and the
\* enumeration order of the files, with the rows in order
C9_Idempotent ==
    TwoFullRuns =>
        /\ disk.per_survey = prev.disk.per_survey
        /\ disk.merged = prev.disk.merged
        /\ disk.problems = prev.disk.problems
        /\ RowsInOrder

-----------------------------------------------------------------------------
(* Properties of identity detection.  The folders of the two maps and the  *)
(* two folders of a single-pair run carry the identity detected in their   *)
(* paths; a base key comes from a detected identity, a path or an override.*)

\* group 1 of every match of the pattern in the text, leftmost first
GroupsOf(re, text) == captures_iter(re, text)

\* group 1 of the n-th of n >= 1 matches, none with no match
FinalGroup(re, text) ==
    LET groups == GroupsOf(re, text)
    IN  IF Len(groups) = 0 THEN None ELSE groups[Len(groups)]

\* the final match's group 1 of the base-key pattern, upper-cased
FinalBaseKey(text) ==
    LET final == FinalGroup(Unwrap(compiled).base_re, text)
    IN  IF IsSome(final) THEN Some(to_uppercase(Unwrap(final))) ELSE None

FinalDetectedIn(text) == FinalGroup(Unwrap(compiled).detected_re, text)

FinalDetected(path) == FinalDetectedIn(to_string_lossy(path))

\* the folder recorded under the base key k carries the final identity of
\* its path, and k is the final base key of that identity or of the path
FolderDetection(k, folder) ==
    LET text == to_string_lossy(folder.path)
    IN  /\ folder.detected_id = FinalDetectedIn(text)
        /\ \/ /\ IsSome(folder.detected_id)
              /\ Some(k) = FinalBaseKey(Unwrap(folder.detected_id))
           \/ Some(k) = FinalBaseKey(text)

\* the walks of discover_surveys are under way or just over
Discovering == pc \in {"discover_raw", "discover_graded", "scan"}

\* process_pair has started in a single-pair run
SinglePairStarted == mode = "single" /\ IsSome(pair.raw) /\ IsSome(compiled)

\* C11: extract_detected_id returns group 1 of the last of the n >= 1
\* matches of the identity pattern in a path and none with n = 0, and
\* extract_base_key returns group 1 of the last match of the base-key
\* pattern, upper-cased: so for every survey folder the walks record, for
\* the two folders of a single-pair run without override, and for the base
\* key derived from an override
C11_LastMatchWins ==
    /\ Discovering =>
        \A side \in {"raw", "graded"} :
            \A k \in DOMAIN MapOf(side) :
                \A i \in DOMAIN MapOf(side)[k] :
                    FolderDetection(k, MapOf(side)[k][i])
    /\ SinglePairStarted =>
        /\ Unwrap(pair.raw).detected_id = FinalDetected(single.raw_dir)
        /\ IsNone(single.survey_id_override) =>
            /\ Unwrap(pair.graded).detected_id = FinalDetected(single.graded_dir)
            /\ Some(pair.base_key)
                    = FinalBaseKey(Unwrap(FinalDetected(single.graded_dir)))
        /\ (/\ IsSome(single.survey_id_override)
            /\ IsSome(FinalBaseKey(Unwrap(single.survey_id_override)))) =>
                Some(pair.base_key)
                    = FinalBaseKey(Unwrap(single.survey_id_override))
    /\ (mode = "single" /\ pc = "done" /\ IsSome(compiled)
            /\ IsNone(single.survey_id_override)
            /\ IsNone(FinalDetected(single.graded_dir))) =>
        result = Some(Err("Message"))

\* a single-pair run without override on a graded directory whose path
\* holds the identities 1A and 2B, in this order, took 2B
C11_Witness ==
    /\ SinglePairStarted
    /\ IsNone(single.survey_id_override)
    /\ GroupsOf(Unwrap(compiled).detected_re, to_string_lossy(single.graded_dir))
            = <<Some(<<"1", "A">>), Some(<<"2", "B">>)>>
    /\ Unwrap(pair.graded).detected_id = Some(<<"2", "B">>)
    /\ pair.base_key = <<"2", "B">>

-----------------------------------------------------------------------------
(* Properties of the per-image identity.  pair.map is keyed by the         *)
(* identity keys of the graded images, pair.ambiguity_warnings counts the  *)
(* ambiguous calls on the graded images and on the raw images done so far. *)

\* the image-id pattern matches the stem of the file with a group 1
IdMatches(f) ==
    LET groups == GroupsOf(Unwrap(compiled).image_id_re, file_stem(f.name))
    IN  groups # <<>> /\ IsSome(groups[1])

\* the three outcomes: <<key, ambiguous>>
ThreeOutcomes(f) ==
    LET groups == GroupsOf(Unwrap(compiled).image_id_re, file_stem(f.name))
    IN  IF groups # <<>> /\ IsSome(groups[1])
    THEN <<to_lowercase(Unwrap(groups[1])), FALSE>>
    ELSE IF f.meta_ok
    THEN <<to_lowercase(f.name) \o <<"|">> \o to_string(f.size), FALSE>>
    ELSE <<to_lowercase(f.name), TRUE>>

\* the allowed-extension files below a directory
ImagesUnder(dir) ==
    {f \in fs.files :
        /\ IsUnder(f.dir, dir)
        /\ \E e \in Range(rules.extensions) :
              LET dotted == IF to_lowercase(trim(e))[1] = "."
                            THEN to_lowercase(trim(e))
                            ELSE <<".">> \o to_lowercase(trim(e))
                  n == Len(f.name) - Len(dotted)
              IN  /\ n >= 1
                  /\ to_lowercase(SubSeq(f.name, n + 1, Len(f.name))) = dotted
                  /\ \A j \in (n + 2)..Len(f.name) : f.name[j] # "."}

PairIsStarted == IsSome(pair.raw) /\ IsSome(compiled)

\* compute_file_id is ambiguous on the file: no match and no metadata
Ambiguous(f) == ~f.meta_ok /\ ~IdMatches(f)

\* C12: compute_file_id gives the lower-cased group 1 and ambiguous =
\* false when the image-id pattern matches the stem, else the lower-cased
\* file name, "|" and the size and ambiguous = false when the metadata is
\* readable, else the lower-cased file name alone and ambiguous = true;
\* so for every file of the trees and for the keys of the graded map when
\* a pair starts, and for the ambiguity count of a pair at every step, and
\* a run that got to process a pair returns no error
C12_ThreeOutcomes ==
    PairIsStarted =>
        LET graded_images == ImagesUnder(Unwrap(pair.graded).path)
        IN  /\ pair.index = 0 =>
                /\ \A f \in fs.files :
                    LET id == compute_file_id(f, Unwrap(compiled))
                    IN  /\ id = ThreeOutcomes(f)
                        /\ id[2] <=> Ambiguous(f)
                /\ DOMAIN pair.map
                        = {ThreeOutcomes(f)[1] : f \in graded_images}
            /\ pair.ambiguity_warnings
                    = Cardinality({f \in graded_images : Ambiguous(f)})
                      + Cardinality({i \in 1..pair.index :
                                        Ambiguous(pair.raw_files[i])})
            /\ pc = "done" => (IsSome(result) /\ Unwrap(result).ok)

\* a pair is done with two ambiguity warnings: one for a graded image and
\* one for the raw image c.J, both without readable metadata and keyed by
\* the file name alone, so that the raw image has the graded one as its
\* candidate; a third image without readable metadata has a key from the
\* pattern
C12_Witness ==
    /\ PairIsStarted
    /\ pc = "done"
    /\ pair.ambiguity_warnings = 2
    /\ \E i \in DOMAIN pair.rows :
        /\ pair.rows[i].filename = <<"c", ".", "J">>
        /\ pair.rows[i].graded_hits = 1
    /\ \E f \in ImagesUnder(Unwrap(pair.graded).path) :
        IdMatches(f) /\ ~f.meta_ok

-----------------------------------------------------------------------------
(* Properties of a full run over OK and PROBLEM entries *)

KeysWithStatus(status) ==
    {scan.entries[i].base_key :
        i \in {j \in DOMAIN scan.entries : scan.entries[j].status = status}}

FullRunDone == pc = "done" /\ mode = "run" /\ IsSome(compiled)

\* the OK entries the loop of run_root_scan has passed
PassedOk ==
    {i \in DOMAIN scan.entries :
        i < totals.next_entry /\ scan.entries[i].status = "OK"}

\* C13: in a full run no PROBLEM entry is processed and every OK entry is,
\* in base-key order: the pair being processed is that of an OK entry, the
\* surveys processed so far are the OK entries passed, and when the run is
\* done it returned success with processed_surveys the number of OK
\* entries, a per-survey CSV for exactly the OK entries, and no row of the
\* merged CSV and no progress event with the base key of a PROBLEM entry
C13_ProblemsDoNotAbort ==
    /\ pc # "panicked"
    /\ (mode = "run" /\ IsSome(compiled)) =>
        /\ totals.processed_surveys = Cardinality(PassedOk)
        /\ pc = "images" =>
                /\ CurrentEntry.status = "OK"
                /\ CurrentEntry.base_key = pair.base_key
        /\ AscendingBy([i \in DOMAIN events |-> events[i].survey_id_base])
        /\ \A i \in DOMAIN events :
                events[i].survey_id_base \in KeysWithStatus("OK")
    /\ FullRunDone =>
        /\ IsSome(result)
        /\ Unwrap(result).ok
        /\ Unwrap(result).value.processed_surveys
                = Cardinality({i \in DOMAIN scan.entries :
                                    scan.entries[i].status = "OK"})
        /\ options.write_per_survey =>
                DOMAIN disk.per_survey = KeysWithStatus("OK")
        /\ IsSome(disk.merged) =>
                /\ Range(Column(Unwrap(disk.merged), 1)) \subseteq KeysWithStatus("OK")
                /\ AscendingBy(Column(Unwrap(disk.merged), 1))

\* a full run returned its summary after it passed over a PROBLEM entry
\* and then processed the pair of an OK entry, whose rows it wrote
C13_Witness ==
    /\ FullRunDone
    /\ Len(scan.entries) = 2
    /\ scan.entries[1].status = "PROBLEM"
    /\ scan.entries[2].status = "OK"
    /\ Unwrap(result).value.processed_surveys = 1
    /\ Unwrap(result).value.total_rows >= 1
    /\ IsSome(disk.problems)

-----------------------------------------------------------------------------
(* Properties of a rule document with a pattern that does not compile *)

\* one of the four patterns of the rule document does not compile
SomePatternInvalid ==
    \E p \in {rules.survey_id_regex_detected, rules.survey_id_regex_base,
               rules.image_id_regex, rules.graded_priority_ind_regex} :
        p.kind = "invalid"

\* nothing of the file system was read or written by the current run
NoFileSystemOperation ==
    /\ walker = <<>>
    /\ visited = NoVisits
    /\ raw_map = EmptyMap
    /\ graded_map = EmptyMap
    /\ pair = NoPair
    /\ events = <<>>
    /\ ~disk.output_dir
    /\ ~disk.per_survey_dir
    /\ disk.per_survey = EmptyMap
    /\ IsNone(disk.merged)
    /\ IsNone(disk.problems)

\* C14: with a pattern of the rule document that does not compile, each
\* of preview_root_scan, run_root_scan and run_single_pair returns the
\* error at once: no directory walked, no output directory created, no
\* CSV file created or written
C14_InvalidPatternAbortsBeforeIO ==
    SomePatternInvalid =>
        /\ pc \in {"idle", "done"}
        /\ NoFileSystemOperation
        /\ pc = "done" =>
            /\ mode \in {"preview", "run", "single"}
            /\ result = Some(Err("Regex"))

\* run_single_pair returned the error for a rule document whose priority
\* pattern, the last one compile_rules gets to, does not compile, after
\* another run of it did
C14_Witness ==
    /\ rules.graded_priority_ind_regex.kind = "invalid"
    /\ pc = "done"
    /\ mode = "single"
    /\ prev.mode = "single"
    /\ result = Some(Err("Regex"))

-----------------------------------------------------------------------------
(* Properties of the override of a single-pair run *)

\* C15: in a single-pair run with an override string the base key of the
\* pair and of every row is derived from the override, the graded detected
\* identity of the pair and of every row is the override string, and the
\* path of the graded directory plays no part; without an override the
\* graded detected identity is the one detected in that path
C15_OverrideInsteadOfDetection ==
    SinglePairStarted =>
        /\ IsSome(single.survey_id_override) =>
            /\ Some(pair.base_key) = FinalBaseKey(Unwrap(single.survey_id_override))
            /\ Unwrap(pair.graded).detected_id = single.survey_id_override
            /\ \A i \in DOMAIN pair.rows :
                /\ Some(pair.rows[i].survey_id_base)
                        = FinalBaseKey(Unwrap(single.survey_id_override))
                /\ pair.rows[i].survey_id_graded_detected
                        = single.survey_id_override
        /\ IsNone(single.survey_id_override) =>
            Unwrap(pair.graded).detected_id = FinalDetected(single.graded_dir)

-----------------------------------------------------------------------------
(* Properties of the progress events.  events holds every event the       *)
(* current run emitted, in the order of the emit calls.                    *)

Processing == mode \in {"run", "single"} /\ IsSome(compiled)

\* the raw folder of the pair with base key k
RawDirOf(k) ==
    IF mode = "single" THEN single.raw_dir
    ELSE Unwrap(scan.entries[CHOOSE i \in DOMAIN scan.entries :
                                scan.entries[i].base_key = k].raw).path

\* the pairs process_pair has returned for
ReturnedPairs ==
    IF mode = "single"
    THEN IF pc \in {"summary", "done"} /\ IsSome(pair.raw)
         THEN {pair.base_key} ELSE {}
    ELSE {scan.entries[i].base_key : i \in PassedOk}

EventsOf(k) == {i \in DOMAIN events : events[i].survey_id_base = k}

\* C16: the events of a pair with N raw images carry its base key, total
\* = N and processed = 1, 2, ... in the order of emission; there is one
\* event for each row built so far, N once process_pair has returned (so
\* the last has processed = total and a pair without raw images has no
\* event), and the events of one survey are not interleaved with those of
\* another
C16_ProgressEvents ==
    Processing =>
        /\ \A i \in DOMAIN events :
            /\ events[i].total
                    = Cardinality(ImagesUnder(RawDirOf(events[i].survey_id_base)))
            /\ events[i].processed
                    = 1 + Cardinality({j \in EventsOf(events[i].survey_id_base) : j < i})
            /\ events[i].processed <= events[i].total
            /\ \A j \in EventsOf(events[i].survey_id_base) :
                    \A l \in DOMAIN events :
                        (i < l /\ l < j) =>
                            events[l].survey_id_base = events[i].survey_id_base
        /\ \A k \in ReturnedPairs :
            /\ Cardinality(EventsOf(k)) = Cardinality(ImagesUnder(RawDirOf(k)))
            /\ EventsOf(k) # {} =>
                    \E i \in EventsOf(k) :
                        /\ \A j \in EventsOf(k) : j <= i
                        /\ events[i].processed = events[i].total
        /\ pc = "images" =>
            /\ Cardinality(EventsOf(pair.base_key)) = Len(pair.rows)
            /\ Len(pair.rows) = pair.index

\* a full run is done that emitted the events (1, 2) and (2, 2) of a
\* survey with two raw images and then the event (1, 1) of the next
C16_Witness ==
    /\ pc = "done"
    /\ mode = "run"
    /\ Len(events) = 3
    /\ events[1].survey_id_base = events[2].survey_id_base
    /\ events[3].survey_id_base # events[2].survey_id_base
    /\ <<events[1].processed, events[1].total>> = <<1, 2>>
    /\ <<events[2].processed, events[2].total>> = <<2, 2>>
    /\ <<events[3].processed, events[3].total>> = <<1, 1>>

-----------------------------------------------------------------------------
(* Properties of the delivery of the progress events.  An event records    *)
(* whether its emit call succeeded; the emit calls of two runs in a row    *)
(* succeed and fail independently.                                         *)

\* a run has returned after another run of the same entry point returned
TwoRunsOf(m) == pc = "done" /\ mode = m /\ prev.mode = m

\* C17: whatever emit calls fail, the rows built so far are those of the
\* first raw images of the pair, one each and in their order; a run that
\* got to process_pair returns success with a row for every raw image of
\* its last pair; and two runs in a row, full or single-pair, return the
\* same result with the same counters and write the same rows in the same
\* order
C17_FireAndForget ==
    /\ PairIsStarted =>
        /\ Len(pair.rows) = pair.index
        /\ pair.index <= Len(pair.raw_files)
        /\ \A i \in DOMAIN pair.rows :
                pair.rows[i].filename = pair.raw_files[i].name
        /\ pc = "done" =>
            /\ Len(pair.rows) = Len(pair.raw_files)
            /\ Unwrap(result).ok
    /\ (TwoRunsOf("run") \/ TwoRunsOf("single")) =>
        /\ result = prev.result
        /\ disk.merged = prev.disk.merged
        /\ disk.per_survey = prev.disk.per_survey

\* a full run is done in which one emit call failed and a later one
\* succeeded, after another full run
C17_Witness ==
    /\ TwoRunsOf("run")
    /\ Unwrap(result).ok
    /\ \E i, j \in DOMAIN events :
        /\ i < j
        /\ ~events[i].delivered
        /\ events[j].delivered
    /\ Unwrap(result).value.total_rows = Len(events)

-----------------------------------------------------------------------------
(* Properties of the problem type of an entry.  scan.preview[i] is the     *)
(* preview item of the entry scan.entries[i].                              *)

\* the paths of the folders of a list in the order of the list, joined
ListedPaths(list) == JoinedPaths([i \in DOMAIN list |-> list[i].path])

\* problem type and details of a preview item
TypeAndDetails(item) == <<item.problem_type, item.details>>

\* C18: the preview item of a base key with a missing side has the
\* missing kind and the missing-side text, also when the other side is
\* duplicated; with no side missing it has DUPLICATE_RAW and the joined
\* raw paths if the raw side is duplicated, else DUPLICATE_GRADED and the
\* joined graded paths if the graded side is, else no problem type; and
\* the problem list holds one record for every missing and for every
\* duplicated side of the base key
C18_MissingBeforeDuplicate ==
    AfterScan =>
        /\ Len(scan.preview) = Len(scan.entries)
        /\ \A i \in DOMAIN scan.preview :
            LET k == scan.preview[i].base_key
                item == TypeAndDetails(scan.preview[i])
            IN  /\ k = scan.entries[i].base_key
                /\ RawList(k) = <<>> =>
                        item = <<Some("RAW_MISSING"), Some(NoRawText)>>
                /\ GradedList(k) = <<>> =>
                        item = <<Some("GRADED_MISSING"), Some(NoGradedText)>>
                /\ (RawList(k) # <<>> /\ GradedList(k) # <<>>) =>
                        item = IF Len(RawList(k)) >= 2
                               THEN <<Some("DUPLICATE_RAW"),
                                      Some(ListedPaths(RawList(k)))>>
                               ELSE IF Len(GradedList(k)) >= 2
                               THEN <<Some("DUPLICATE_GRADED"),
                                      Some(ListedPaths(GradedList(k)))>>
                               ELSE <<None, None>>
                /\ Cardinality(ProblemsOf(k, "RAW_MISSING"))
                        = IF RawList(k) = <<>> THEN 1 ELSE 0
                /\ Cardinality(ProblemsOf(k, "GRADED_MISSING"))
                        = IF GradedList(k) = <<>> THEN 1 ELSE 0
                /\ Cardinality(ProblemsOf(k, "DUPLICATE_RAW"))
                        = IF Len(RawList(k)) >= 2 THEN 1 ELSE 0
                /\ Cardinality(ProblemsOf(k, "DUPLICATE_GRADED"))
                        = IF Len(GradedList(k)) >= 2 THEN 1 ELSE 0

\* the scan returned a preview item of the kind RAW_MISSING for a base
\* key with no raw folder and two graded folders, with a DUPLICATE_GRADED
\* and a RAW_MISSING record in the problem list
C18_Witness ==
    /\ AfterScan
    /\ \E i \in DOMAIN scan.preview :
        /\ RawList(scan.preview[i].base_key) = <<>>
        /\ Len(GradedList(scan.preview[i].base_key)) = 2
        /\ scan.preview[i].problem_type = Some("RAW_MISSING")
        /\ ProblemsOf(scan.preview[i].base_key, "DUPLICATE_GRADED") # {}
        /\ ProblemsOf(scan.preview[i].base_key, "RAW_MISSING") # {}

-----------------------------------------------------------------------------
(* Properties of the summary of a successful run *)

\* a full or single-pair run returned a summary
SummaryReturned ==
    /\ pc = "done"
    /\ mode \in {"run", "single"}
    /\ IsSome(result)
    /\ Unwrap(result).ok

\* the raw folders of the pairs the run processed
ProcessedRawDirs ==
    IF mode = "single" THEN {single.raw_dir}
    ELSE {Unwrap(scan.entries[i].raw).path :
            i \in {j \in DOMAIN scan.entries : scan.entries[j].status = "OK"}}

\* the allowed-extension raw images of the pairs the run processed, each
\* with its folder
ProcessedRawImages ==
    UNION {{<<d, f>> : f \in ImagesUnder(d)} : d \in ProcessedRawDirs}

\* C19: in the summary of a successful full or single-pair run total_rows
\* is dolphin_yes + dolphin_no and the number of allowed-extension raw
\* images under the raw folders of the processed pairs, and every row,
\* built or written, has the retain flag 0 or 1
C19_SummaryCounts ==
    /\ \A i \in DOMAIN pair.rows : pair.rows[i].dolphin \in {0, 1}
    /\ IsSome(disk.merged) =>
            Range(Column(Unwrap(disk.merged), 4)) \subseteq {<<"0">>, <<"1">>}
    /\ \A k \in DOMAIN disk.per_survey :
            Range(Column(disk.per_survey[k], 4)) \subseteq {<<"0">>, <<"1">>}
    /\ SummaryReturned =>
        /\ Unwrap(result).value.total_rows
                = Unwrap(result).value.dolphin_yes + Unwrap(result).value.dolphin_no
        /\ Unwrap(result).value.total_rows = Cardinality(ProcessedRawImages)
        /\ IsSome(disk.merged) =>
                Len(Unwrap(disk.merged)) = Unwrap(result).value.total_rows

\* a single-pair run returned the summary of three rows, two retained and
\* one not, for a raw folder with four files
C19_Witness ==
    /\ SummaryReturned
    /\ mode = "single"
    /\ Unwrap(result).value.total_rows = 3
    /\ Unwrap(result).value.dolphin_yes = 2
    /\ Unwrap(result).value.dolphin_no = 1
    /\ Cardinality(files_under(fs, single.raw_dir)) = 4

====
